---- MODULE Spec2Model ----
\* PhantomGaze: the screen buffer (buffers.py), its compositing kernel and
\* the three per-pixel ray-marching kernels (render/volume.py,
\* render/contour.py, render/geometry.py) as a state machine.
\*
\* Floats are modelled as exact rationals <<n, d>> in lowest terms with
\* d >= 0; <<1, 0>> is +inf (wp.inf) and <<0, 0>> is NaN.  A ray is reduced
\* to the quantities the kernels read along it: the travelled distance and
\* the values the scene returns at that distance.
EXTENDS Integers, Sequences, FiniteSets, TLC

\* ------------------------------------------------------------------ bounds
Height == 2
Width == 1
MaxLaunches == 2
MaxBuffers == 2
MaxIter == 12

\* --------------------------------------------------------------- rationals
Abs(i) == IF i < 0 THEN -i ELSE i

RECURSIVE GCD(_, _)
GCD(a, b) == IF b = 0 THEN a ELSE GCD(b, a % b)

Q(n, d) ==
    IF d = 0 THEN <<(IF n > 0 THEN 1 ELSE IF n < 0 THEN -1 ELSE 0), 0>>
    ELSE LET g == GCD(Abs(n), Abs(d))
             s == IF d < 0 THEN -1 ELSE 1
         IN  <<(s * n) \div g, (s * d) \div g>>

Inf == <<1, 0>>
NaN == <<0, 0>>
Zero == <<0, 1>>
One == <<1, 1>>
Half == <<1, 2>>
N(i) == <<i, 1>>

\* The operations are functions of their operands' values (an operand is
\* evaluated once, however often the operation uses it)
Rat == Int \X Int
Vec3 == Rat \X Rat \X Rat

IsNaN(a) == a = NaN
QAdd(a, b) ==
    LET add[x \in Rat, y \in Rat] ==
            LET d == IF x[2] = 0 \/ y[2] = 0 THEN 0
                     ELSE (x[2] \div GCD(x[2], y[2])) * y[2]
            IN  IF x[2] = 0 /\ y[2] = 0
                THEN (IF x = y THEN x ELSE NaN)
                ELSE IF d = 0 THEN Q(x[1] * y[2] + y[1] * x[2], 0)
                ELSE Q(x[1] * (d \div x[2]) + y[1] * (d \div y[2]), d)
    IN  add[a, b]
QNeg(a) == LET neg[x \in Rat] == <<-x[1], x[2]>> IN neg[a]
QSub(a, b) == QAdd(a, QNeg(b))
QMul(a, b) ==
    LET mul[x \in Rat, y \in Rat] ==
            LET g1 == GCD(Abs(x[1]), y[2])
                g2 == GCD(Abs(y[1]), x[2])
            IN  IF g1 = 0 \/ g2 = 0 THEN Q(x[1] * y[1], x[2] * y[2])
                ELSE Q((x[1] \div g1) * (y[1] \div g2),
                       (x[2] \div g2) * (y[2] \div g1))
    IN  mul[a, b]
QDiv(a, b) ==
    LET div[x \in Rat, y \in Rat] == Q(x[1] * y[2], x[2] * y[1])
    IN  div[a, b]
QAbs(a) == LET abs[x \in Rat] == <<Abs(x[1]), x[2]>> IN abs[a]
\* IEEE comparisons: every comparison with NaN is false, inf = inf
QLt(a, b) ==
    LET lt[x \in Rat, y \in Rat] ==
            /\ ~IsNaN(x) /\ ~IsNaN(y) /\ x # y
            /\ IF x[2] = 0 /\ y[2] = 0 THEN x[1] < y[1]
               ELSE IF x[2] = 0 \/ y[2] = 0
                    THEN x[1] * y[2] < y[1] * x[2]
               ELSE LET g == GCD(x[2], y[2])
                    IN  x[1] * (y[2] \div g) < y[1] * (x[2] \div g)
    IN  lt[a, b]
QGt(a, b) == QLt(b, a)
QEq(a, b) == LET eq[x \in Rat, y \in Rat] == ~IsNaN(x) /\ x = y IN eq[a, b]
QNe(a, b) == ~QEq(a, b)
QLe(a, b) ==
    LET le[x \in Rat, y \in Rat] == QLt(x, y) \/ QEq(x, y) IN le[a, b]
QGe(a, b) == QLe(b, a)
QMin(a, b) ==
    LET min[x \in Rat, y \in Rat] == IF QLt(y, x) THEN y ELSE x
    IN  min[a, b]
QMax(a, b) ==
    LET max[x \in Rat, y \in Rat] == IF QLt(x, y) THEN y ELSE x
    IN  max[a, b]
\* int(x) of a finite float: truncation towards zero
QInt(a) ==
    LET int[x \in Rat] ==
            IF x[1] < 0 THEN -((-x[1]) \div x[2]) ELSE x[1] \div x[2]
    IN  int[a]

Vec3Zero == <<Zero, Zero, Zero>>
Dot(u, v) ==
    LET dot[a \in Vec3, b \in Vec3] ==
            QAdd(QAdd(QMul(a[1], b[1]), QMul(a[2], b[2])), QMul(a[3], b[3]))
    IN  dot[u, v]

\* ------------------------------------------------------------ the scene
\* Pixels are <<y, x>>: row y of height, column x of width (wp.tid() gives
\* x, y and the buffers are indexed [y, x]).
Pixels == {<<y, x>> : y \in 0..(Height - 1), x \in 0..(Width - 1)}
VARIABLES
    opaque_pixel_buffer,        \* [Pixels -> rgb]
    depth_buffer,               \* [Pixels -> float]
    normal_buffer,              \* [Pixels -> vec3]
    transparent_pixel_buffer,   \* [Pixels -> rgb]
    revealage_buffer,           \* [Pixels -> float]
    background_buffer,          \* [Pixels -> rgb]
    image_buffer,               \* [Pixels -> rgba]
    array_id,                   \* [array name -> identity of the array object]
    next_id,                    \* number of arrays allocated so far
    op,                         \* the last operation: name and arguments
    drawn,                      \* draws launched on the buffer since it was
                                \* created or cleared, in launch order
    thread,                     \* one kernel invocation, step by step
    geometries                  \* the Geometry objects made so far, in the
                                \* order of their construction

bufs == <<opaque_pixel_buffer, depth_buffer, normal_buffer,
          transparent_pixel_buffer, revealage_buffer, background_buffer,
          image_buffer>>
vars == <<opaque_pixel_buffer, depth_buffer, normal_buffer,
          transparent_pixel_buffer, revealage_buffer, background_buffer,
          image_buffer, array_id, next_id, op, drawn, thread, geometries>>

\* wp.zeros / wp.ones / wp.full / fill_
Fill(v) == [p \in Pixels |-> v]

\* ScreenBuffer.__init__: seven new arrays with their initial values
NewArrayIds(first) ==
    [a \in {"opaque_pixel_buffer", "depth_buffer", "normal_buffer",
             "transparent_pixel_buffer", "revealage_buffer",
             "background_buffer", "image_buffer"} |->
        first + CASE a = "opaque_pixel_buffer" -> 0
                  [] a = "depth_buffer" -> 1
                  [] a = "normal_buffer" -> 2
                  [] a = "transparent_pixel_buffer" -> 3
                  [] a = "revealage_buffer" -> 4
                  [] a = "background_buffer" -> 5
                  [] a = "image_buffer" -> 6]

ScreenBuffer_init ==
    [opaque_pixel_buffer |-> Fill(Vec3Zero),
     depth_buffer |-> Fill(Inf),
     normal_buffer |-> Fill(Vec3Zero),
     transparent_pixel_buffer |-> Fill(Vec3Zero),
     revealage_buffer |-> Fill(One),
     background_buffer |-> Fill(Vec3Zero),
     image_buffer |-> Fill(<<Zero, Zero, Zero, Zero>>)]

\* ScreenBuffer.from_camera: __init__, then the background is filled
\* channel by channel from camera.background.color
from_camera(camera) ==
    [ScreenBuffer_init EXCEPT
        !.background_buffer = Fill(<<camera.background[1],
                                     camera.background[2],
                                     camera.background[3]>>)]

\* The buffers of the current ScreenBuffer as one record
SB ==
    [opaque_pixel_buffer |-> opaque_pixel_buffer,
     depth_buffer |-> depth_buffer,
     normal_buffer |-> normal_buffer,
     transparent_pixel_buffer |-> transparent_pixel_buffer,
     revealage_buffer |-> revealage_buffer,
     background_buffer |-> background_buffer,
     image_buffer |-> image_buffer]

SetSB(sb) ==
    /\ opaque_pixel_buffer' = sb.opaque_pixel_buffer
    /\ depth_buffer' = sb.depth_buffer
    /\ normal_buffer' = sb.normal_buffer
    /\ transparent_pixel_buffer' = sb.transparent_pixel_buffer
    /\ revealage_buffer' = sb.revealage_buffer
    /\ background_buffer' = sb.background_buffer
    /\ image_buffer' = sb.image_buffer

\* ------------------------------------------------------------ compositing
\* (variant: the transparent colour is added without the alpha factor)
combine_pixel_unweighted(sb, y, x) ==
    LET base == IF QNe(sb.depth_buffer[<<y, x>>], Inf)
                THEN sb.opaque_pixel_buffer[<<y, x>>]
                ELSE sb.background_buffer[<<y, x>>]
        alpha == QSub(One, sb.revealage_buffer[<<y, x>>])
        tc == sb.transparent_pixel_buffer[<<y, x>>]
        mix(c) == QAdd(QMul(base[c], QSub(One, alpha)), tc[c])
    IN  <<mix(1), mix(2), mix(3), One>>

\* _combine_buffers_kernel for the thread of pixel (x, y): the value it
\* computes and the image row it writes it to
combine_pixel(sb, y, x) ==
    LET base == IF QNe(sb.depth_buffer[<<y, x>>], Inf)
                THEN sb.opaque_pixel_buffer[<<y, x>>]
                ELSE sb.background_buffer[<<y, x>>]
        alpha == QSub(One, sb.revealage_buffer[<<y, x>>])
        tc == sb.transparent_pixel_buffer[<<y, x>>]
        mix(c) == QAdd(QMul(base[c], QSub(One, alpha)), QMul(tc[c], alpha))
    IN  <<mix(1), mix(2), mix(3), One>>

\* (variant: no flip)
flip_y_identity(y) == y

flip_y(y) == Height - y - 1

\* The threads of one launch over dim = [width, height] that pass the
\* bounds check, and the image entry [row, column] each one writes
combine_threads == {q \in Pixels : ~(q[2] >= Width \/ q[1] >= Height)}
combine_target(q) == <<flip_y(q[1]), q[2]>>
combine_writers(p) == {q \in combine_threads : combine_target(q) = p}

\* (variant: the launch consumes the transparency layer it has resolved)
_combine_buffers_resolving(sb) ==
    [sb EXCEPT
        !.image_buffer =
            [p \in Pixels |->
                combine_pixel(sb, Height - 1 - p[1], p[2])],
        !.transparent_pixel_buffer = Fill(Vec3Zero),
        !.revealage_buffer = Fill(One)]

\* (variant: the launch adds to what image_buffer already holds)
_combine_buffers_adding(sb) ==
    [sb EXCEPT !.image_buffer =
        [p \in Pixels |->
            LET new == combine_pixel(sb, Height - 1 - p[1], p[2])
                old == sb.image_buffer[p]
            IN  <<QAdd(old[1], new[1]), QAdd(old[2], new[2]),
                  QAdd(old[3], new[3]), One>>]]

\* One launch of _combine_buffers_kernel: every thread writes the four
\* channels of its image entry; the other six arrays are only read
_combine_buffers_kernel(sb) ==
    [sb EXCEPT !.image_buffer =
        [p \in Pixels |->
            IF combine_writers(p) # {}
            THEN LET q == CHOOSE w \in combine_writers(p) : TRUE
                 IN  combine_pixel(sb, q[1], q[2])
            ELSE sb.image_buffer[p]]]

\* (variant: the revealage buffer is not refilled)
clear_keeping_revealage(sb) ==
    [opaque_pixel_buffer |-> Fill(Vec3Zero),
     depth_buffer |-> Fill(Inf),
     normal_buffer |-> Fill(Vec3Zero),
     transparent_pixel_buffer |-> Fill(Vec3Zero),
     revealage_buffer |-> sb.revealage_buffer,
     background_buffer |-> Fill(Vec3Zero),
     image_buffer |-> Fill(<<Zero, Zero, Zero, Zero>>)]

\* ScreenBuffer.clear: fill_ on each of the seven arrays
clear(sb) ==
    [opaque_pixel_buffer |-> Fill(Vec3Zero),
     depth_buffer |-> Fill(Inf),
     normal_buffer |-> Fill(Vec3Zero),
     transparent_pixel_buffer |-> Fill(Vec3Zero),
     revealage_buffer |-> Fill(One),
     background_buffer |-> Fill(Vec3Zero),
     image_buffer |-> Fill(<<Zero, Zero, Zero, Zero>>)]

\* ------------------------------------------------------------ the kernels
\* What one pixel's thread holds of the five stateful arrays
PixelOf(sb, p) ==
    [opaque_pixel |-> sb.opaque_pixel_buffer[p],
     depth |-> sb.depth_buffer[p],
     normal |-> sb.normal_buffer[p],
     transparent_pixel |-> sb.transparent_pixel_buffer[p],
     revealage |-> sb.revealage_buffer[p]]

\* The ray of pixel <<y, x>> in a draw: a draw lists what its rays see, and
\* the pixels take them in row-major order
RayOf(draw, p) == draw.rays[((p[1] * Width + p[2]) % Len(draw.rays)) + 1]

\* wp.normalize for a vector whose length is rational (0 stays 0)
ISqrt(k) == CHOOSE r \in 0..k : r * r = k
Length(v) ==
    LET root[sq \in Rat] == Q(ISqrt(sq[1]), ISqrt(sq[2])) IN root[Dot(v, v)]
normalize(v) ==
    LET scaled[a \in Vec3, l \in Rat] ==
            IF l = Zero THEN Vec3Zero
            ELSE <<QDiv(a[1], l), QDiv(a[2], l), QDiv(a[3], l)>>
    IN  scaled[v, Length(v)]

\* Weighted Blended OIT weight: 1.0 / (normalized_distance**2.0 + 1.0)
wboit_weight(distance, max_depth) ==
    LET weight[normalized_distance \in Rat] ==
            QDiv(One, QAdd(QMul(normalized_distance, normalized_distance),
                           One))
    IN  weight[QDiv(distance, max_depth)]

Scale3(c, f) ==
    LET scale[a \in Vec3, k \in Rat] ==
            <<QMul(a[1], k), QMul(a[2], k), QMul(a[3], k)>>
    IN  scale[c, f]
Add3(a, b) ==
    LET add[u \in Vec3, v \in Vec3] ==
            <<QAdd(u[1], v[1]), QAdd(u[2], v[2]), QAdd(u[3], v[3])>>
    IN  add[a, b]

\* scalar_to_color: clamp to [vmin, vmax], index the table (rows are
\* numbered from 1 here)
scalar_to_color(value, color_map_array, vmin, vmax) ==
    LET row[v \in Rat] ==
            QInt(QMul(QDiv(QSub(v, vmin), QSub(vmax, vmin)),
                      N(Len(color_map_array) - 1)))
    IN  color_map_array[row[QMin(QMax(value, vmin), vmax)] + 1]

\* The signed distance function along a ray, at travelled position s:
\* a solid between lo and hi on the ray, a plane that the ray meets at lo
\* at an angle of cosine c, or a constant value
sdf(ray, s) ==
    LET at[pos \in Rat] ==
            IF ray.shape = "slab"
            THEN QMax(QSub(ray.lo, pos), QSub(pos, ray.hi))
            ELSE IF ray.shape = "plane"
            THEN QMul(ray.c, QSub(ray.lo, pos))
            ELSE ray.c
    IN  at[s]

\* (variant: no depth test)
beyond_depth_never(distance, stored) == FALSE

\* "if distance > depth_buffer[y, x]: return" -- the running depth test of
\* the three kernels
beyond_depth(distance, stored) == QGt(distance, stored)

\* float addition of a step to a travelled distance: once the distance is
\* MaxFloat or more the step is absorbed (x + h = x for large x)
MaxFloat == 12
fadd(a, h) ==
    LET add[x \in Rat, y \in Rat] ==
            IF QGe(x, N(MaxFloat)) THEN x ELSE QAdd(x, y)
    IN  add[a, h]

\* A thread's frame f holds its position (pc), its local variables and, in
\* px, its pixel's entries of the five arrays.  log lists the writes it has
\* made: the layer, the distance, the depth stored when it wrote.
Fragment(layer, distance, stored, rgb, alpha, scale) ==
    [layer |-> layer, distance |-> distance, stored |-> stored,
     rgb |-> rgb, alpha |-> alpha, scale |-> scale]

Rgb(color) == <<color[1], color[2], color[3]>>

\* (variant: the thread goes on marching after an opaque write)
write_opaque_marching_on(f, rgb, alpha, intensity, gradient, distance) ==
    [f EXCEPT
        !.px.opaque_pixel = Scale3(rgb, intensity),
        !.px.depth = distance,
        !.px.normal = gradient,
        !.log = Append(@, Fragment("opaque", distance, f.px.depth,
                                   rgb, alpha, intensity))]

\* opaque path: set the opaque pixel, depth and normal buffers, return
write_opaque(f, rgb, alpha, intensity, gradient, distance) ==
    [f EXCEPT
        !.pc = "done",
        !.px.opaque_pixel = Scale3(rgb, intensity),
        !.px.depth = distance,
        !.px.normal = gradient,
        !.log = Append(@, Fragment("opaque", distance, f.px.depth,
                                   rgb, alpha, intensity))]

\* transparent path of the geometry and contour kernels
accumulate(f, rgb, alpha, intensity, weight, distance) ==
    [f EXCEPT
        !.px.transparent_pixel =
            Add3(@, Scale3(rgb, QMul(QMul(weight, alpha), intensity))),
        !.px.revealage = QMul(@, QSub(One, QMul(alpha, weight))),
        !.log = Append(@, Fragment("transparent", distance, f.px.depth,
                                   rgb, alpha, intensity))]

\* the volume kernel's accumulation
accumulate_volume(f, rgb, alpha, step_size, weight, distance) ==
    [f EXCEPT
        !.px.transparent_pixel =
            Add3(@, Scale3(rgb, QMul(QMul(weight, alpha), step_size))),
        !.px.revealage =
            QMul(@, QSub(One, QMul(QMul(alpha, weight), step_size))),
        !.log = Append(@, Fragment("transparent", distance, f.px.depth,
                                   rgb, alpha, step_size))]

\* ---- geometry: render_kernel, one loop iteration per step
\* the frame when the thread is about to enter the while loop
render_kernel_start(px) ==
    [pc |-> "march", ray_pos |-> Zero, distance_traveled |-> Zero,
     distance |-> Zero, px |-> px, log |-> <<>>]

\* the hit branch, with the normalized gradient and the intensity
render_hit(draw, max_depth, f, gradient, intensity) ==
    IF draw.opaque
    THEN write_opaque(f, Rgb(draw.color_map_array[1]),
                      draw.color_map_array[1][4], intensity, gradient,
                      f.distance_traveled)
    ELSE [accumulate(f, Rgb(draw.color_map_array[1]),
                     draw.color_map_array[1][4], intensity,
                     wboit_weight(f.distance_traveled, max_depth),
                     f.distance_traveled)
            EXCEPT !.pc = "pass"]

\* (variant: intensity without wp.abs)
render_shade_signed(draw, max_depth, ray, f, gradient) ==
    render_hit(draw, max_depth, f, gradient,
               Dot(gradient, ray.ray_direction))

render_shade(draw, max_depth, ray, f, gradient) ==
    render_hit(draw, max_depth, f, gradient,
               QAbs(Dot(gradient, ray.ray_direction)))

\* the loop body after distance and distance_traveled are updated
render_march(draw, max_depth, ray, f) ==
    IF beyond_depth(f.distance_traveled, f.px.depth)
    THEN [f EXCEPT !.pc = "done"]
    ELSE IF QLt(QAbs(f.distance), draw.distance_threshold)
    THEN render_shade(draw, max_depth, ray,
                      [f EXCEPT !.ray_pos = fadd(@, f.distance)],
                      normalize(ray.gradient))
    ELSE [f EXCEPT !.ray_pos = fadd(@, f.distance)]

render_measure(draw, max_depth, ray, f, distance) ==
    render_march(draw, max_depth, ray,
                 [f EXCEPT !.distance = distance,
                           !.distance_traveled = fadd(@, distance)])

\* one iteration of the pass-through loop
render_pass(draw, ray, f, ray_pos) ==
    [f EXCEPT !.ray_pos = ray_pos,
              !.distance_traveled = fadd(@, draw.distance_threshold),
              !.distance = QAbs(sdf(ray, ray_pos))]

render_kernel_step(draw, max_depth, ray, f) ==
    IF f.pc = "march"
    THEN IF ~QLt(f.distance_traveled, max_depth)
         THEN [f EXCEPT !.pc = "done"]
         ELSE render_measure(draw, max_depth, ray, f,
                             QAbs(sdf(ray, f.ray_pos)))
    ELSE IF f.pc = "pass"
    THEN IF QLt(f.distance, draw.distance_threshold)
         THEN render_pass(draw, ray, f,
                          fadd(f.ray_pos, draw.distance_threshold))
         ELSE [f EXCEPT !.pc = "march"]
    ELSE f

\* ---- the marching interval of the volume and contour kernels
step_size_of(spacing) == QMin(spacing[1], QMin(spacing[2], spacing[3]))
range_of(ray, step_size) == QInt(QDiv(QSub(ray.t1, ray.t0), step_size))
\* sample_array along the ray, at ray parameter s = t0 + k * step_size
sample_on_ray(ray, step_size, s) ==
    ray.samples[QInt(QDiv(QSub(s, ray.t0), step_size)) + 1]

\* ---- contour: contour_kernel, one loop iteration per step
contour_enter(draw, ray, px, step_size, value) ==
    [pc |-> "loop", step |-> 0, n |-> range_of(ray, step_size),
     sign |-> IF QGt(value, draw.threshold) THEN 1 ELSE -1,
     value |-> value, ray_pos |-> ray.t0, distance |-> ray.t0,
     t |-> Zero, px |-> px, log |-> <<>>]

contour_kernel_start(draw, ray, px) ==
    IF QGt(ray.t0, ray.t1)
    THEN [pc |-> "done", step |-> 0, n |-> 0, sign |-> -1,
          value |-> Zero, ray_pos |-> Zero, distance |-> Zero,
          t |-> Zero, px |-> px, log |-> <<>>]
    ELSE contour_enter(draw, ray, px, step_size_of(draw.spacing),
             sample_on_ray(ray, step_size_of(draw.spacing), ray.t0))

\* "Update the value and position"
contour_advance(f, step_size, next_ray_pos, next_value) ==
    [f EXCEPT !.value = next_value,
              !.ray_pos = next_ray_pos,
              !.distance = QAdd(@, step_size),
              !.step = @ + 1]

\* "if the color is nan, set it to the nan color"
nan_checked(draw, color) ==
    IF QNe(color[1], color[1])
    THEN <<draw.nan_color[1], draw.nan_color[2], draw.nan_color[3],
           draw.nan_opacity>>
    ELSE color

\* the crossing branch, with gradient, intensity and colour
contour_hit(draw, max_depth, f, step_size, next_ray_pos, next_value, gradient, intensity, color) ==
    IF draw.opaque
    THEN write_opaque(f, Rgb(color), color[4], intensity, gradient,
                      f.distance)
    ELSE contour_advance(
             accumulate(f, Rgb(color), color[4], intensity,
                        wboit_weight(f.distance, max_depth), f.distance),
             step_size, next_ray_pos, next_value)

contour_shade(draw, max_depth, ray, f, step_size, next_ray_pos, next_value, gradient) ==
    contour_hit(draw, max_depth, f, step_size, next_ray_pos, next_value,
                gradient, QAbs(Dot(gradient, ray.ray_direction)),
                nan_checked(draw,
                    scalar_to_color(ray.scalar, draw.color_map_array,
                                    draw.vmin, draw.vmax)))

contour_test(draw, max_depth, ray, f, step_size, next_ray_pos, next_value) ==
    IF QLt(QMul(QSub(next_value, draw.threshold), N(f.sign)), Zero)
    THEN contour_shade(draw, max_depth, ray,
             [f EXCEPT !.sign = -@,
                       !.t = QDiv(QSub(draw.threshold, f.value),
                                  QSub(next_value, f.value))],
             step_size, next_ray_pos, next_value, normalize(ray.gradient))
    ELSE contour_advance(f, step_size, next_ray_pos, next_value)

contour_next(draw, max_depth, ray, f, step_size, next_ray_pos) ==
    contour_test(draw, max_depth, ray, f, step_size, next_ray_pos,
                 sample_on_ray(ray, step_size, next_ray_pos))

contour_body(draw, max_depth, ray, f, step_size) ==
    contour_next(draw, max_depth, ray, f, step_size,
                 QAdd(f.ray_pos, step_size))

contour_kernel_step(draw, max_depth, ray, f) ==
    IF f.pc # "loop" THEN f
    ELSE IF ~(f.step < f.n) THEN [f EXCEPT !.pc = "done"]
    ELSE IF beyond_depth(f.distance, f.px.depth)
         THEN [f EXCEPT !.pc = "done"]
    ELSE contour_body(draw, max_depth, ray, f, step_size_of(draw.spacing))

\* ---- volume: volume_kernel, one loop iteration per step
volume_kernel_start(draw, ray, px) ==
    IF QGt(ray.t0, ray.t1)
    THEN [pc |-> "done", step |-> 0, n |-> 0, ray_pos |-> Zero,
          distance |-> Zero, px |-> px, log |-> <<>>]
    ELSE [pc |-> "loop", step |-> 0,
          n |-> range_of(ray, step_size_of(draw.spacing)),
          ray_pos |-> ray.t0, distance |-> ray.t0, px |-> px, log |-> <<>>]

volume_accumulate(max_depth, f, step_size, color) ==
    [accumulate_volume(f, Rgb(color), color[4], step_size,
                       wboit_weight(f.distance, max_depth), f.distance)
        EXCEPT !.ray_pos = QAdd(@, step_size),
               !.distance = QAdd(@, step_size),
               !.step = @ + 1]

volume_body(draw, max_depth, ray, f, step_size) ==
    volume_accumulate(max_depth, f, step_size,
        scalar_to_color(sample_on_ray(ray, step_size, f.ray_pos),
                        draw.color_map_array, draw.vmin, draw.vmax))

volume_kernel_step(draw, max_depth, ray, f) ==
    IF f.pc # "loop" THEN f
    ELSE IF ~(f.step < f.n) THEN [f EXCEPT !.pc = "done"]
    ELSE IF beyond_depth(f.distance, f.px.depth)
         THEN [f EXCEPT !.pc = "done"]
    ELSE volume_body(draw, max_depth, ray, f, step_size_of(draw.spacing))

\* ---- one thread from start to return
kernel_start(draw, ray, px) ==
    CASE draw.kind = "geometry" -> render_kernel_start(px)
      [] draw.kind = "contour" -> contour_kernel_start(draw, ray, px)
      [] draw.kind = "volume" -> volume_kernel_start(draw, ray, px)

kernel_step(draw, max_depth, ray, f) ==
    CASE draw.kind = "geometry" -> render_kernel_step(draw, max_depth, ray, f)
      [] draw.kind = "contour" -> contour_kernel_step(draw, max_depth, ray, f)
      [] draw.kind = "volume" -> volume_kernel_step(draw, max_depth, ray, f)

RECURSIVE run_thread(_, _, _, _, _)
run_thread(draw, max_depth, ray, f, fuel) ==
    IF f.pc = "done" \/ fuel = 0 THEN f
    ELSE run_thread(draw, max_depth, ray,
                    kernel_step(draw, max_depth, ray, f), fuel - 1)

\* One thread of a launch: the invocation for pixel p reads its entries of
\* the five arrays, runs to its return and leaves its entries behind
thread_result(draw, camera, ray, px) ==
    run_thread(draw, camera.max_depth, ray, kernel_start(draw, ray, px),
               MaxIter)

\* (variant: the entries of the pixel one row further)
store_next_row(sb, p, px) ==
    [sb EXCEPT
        !.opaque_pixel_buffer[<<(p[1] + 1) % Height, p[2]>>] = px.opaque_pixel,
        !.depth_buffer[<<(p[1] + 1) % Height, p[2]>>] = px.depth,
        !.normal_buffer[<<(p[1] + 1) % Height, p[2]>>] = px.normal,
        !.transparent_pixel_buffer[<<(p[1] + 1) % Height, p[2]>>] =
            px.transparent_pixel,
        !.revealage_buffer[<<(p[1] + 1) % Height, p[2]>>] = px.revealage]

\* the pixel's entries of the five arrays, as the thread left them
store(sb, p, px) ==
    [sb EXCEPT
        !.opaque_pixel_buffer[p] = px.opaque_pixel,
        !.depth_buffer[p] = px.depth,
        !.normal_buffer[p] = px.normal,
        !.transparent_pixel_buffer[p] = px.transparent_pixel,
        !.revealage_buffer[p] = px.revealage]

\* r is the launch so far: the buffers, each finished thread's log and
\* whether every thread has returned
launch_thread(r, p, f) ==
    [sb |-> store(r.sb, p, f.px),
     logs |-> [r.logs EXCEPT ![p] = f.log],
     returned |-> r.returned /\ f.pc = "done"]

\* wp.launch(kernel, dim=[width, height]): one thread per pixel
RECURSIVE launch_threads(_, _, _, _)
launch_threads(draw, camera, r, todo) ==
    IF todo = {} THEN r
    ELSE launch_threads(draw, camera,
             launch_thread(r, CHOOSE q \in todo : TRUE,
                 thread_result(draw, camera,
                     RayOf(draw, CHOOSE q \in todo : TRUE),
                     PixelOf(r.sb, CHOOSE q \in todo : TRUE))),
             todo \ {CHOOSE q \in todo : TRUE})

launch(draw, camera, sb) ==
    launch_threads(draw, camera,
                   [sb |-> sb, logs |-> Fill(<<>>), returned |-> TRUE],
                   Pixels)

\* ------------------------------------------------------------- the draws
\* The arguments of the render entry points, with what each pixel's ray
\* sees of the object.  ray_direction is calculate_ray_direction's unit
\* vector for the pixel; gradient is what the derivative returns at a hit.
Ez == <<Zero, Zero, One>>
Exz == <<Q(3, 5), Zero, Q(4, 5)>>
GradZ == <<Zero, Zero, N(-2)>>

Slab(lo, hi, gradient, dir) ==
    [shape |-> "slab", lo |-> N(lo), hi |-> N(hi), c |-> Zero,
     gradient |-> gradient, ray_direction |-> dir]
Const(c, dir) ==
    [shape |-> "const", lo |-> Zero, hi |-> Zero, c |-> N(c),
     gradient |-> GradZ, ray_direction |-> dir]

Geo(opaque, rgba, threshold, rays) ==
    [kind |-> "geometry", opaque |-> opaque, color_map_array |-> <<rgba>>,
     distance_threshold |-> threshold, rays |-> rays]

FieldRay(t0, t1, samples, scalar, gradient, dir) ==
    [t0 |-> t0, t1 |-> t1, samples |-> samples, scalar |-> scalar,
     gradient |-> gradient, ray_direction |-> dir]
\* a ray that misses the bounding box of the data: t0 > t1
MissRay == FieldRay(N(3), N(1), <<Zero>>, Zero, GradZ, Exz)

Jet2 == << <<Zero, Zero, One, Half>>, <<One, Zero, Zero, One>> >>

Contour(opaque, threshold, spacing, cmap, rays) ==
    [kind |-> "contour", opaque |-> opaque, threshold |-> threshold,
     spacing |-> spacing, color_map_array |-> cmap,
     vmin |-> Zero, vmax |-> One,
     nan_color |-> <<One, One, Zero>>, nan_opacity |-> Half,
     rays |-> rays]

Volume(spacing, cmap, rays) ==
    [kind |-> "volume", opaque |-> FALSE, spacing |-> spacing,
     color_map_array |-> cmap, vmin |-> Zero, vmax |-> One,
     nan_color |-> <<One, One, Zero>>, nan_opacity |-> Half,
     rays |-> rays]

Cam4 == [max_depth |-> N(4), background |-> <<Half, Half, One>>]
Cam2 == [max_depth |-> N(2), background |-> <<Zero, Half, Zero>>]

\* The render calls the host makes, by number
RenderCalls ==
    << [camera |-> Cam4, draw |->
          Geo(TRUE, <<One, Half, Zero, One>>, One,
              <<Slab(2, 3, GradZ, Ez), Const(3, Exz)>>)],
       [camera |-> Cam4, draw |->
          Geo(TRUE, <<Zero, One, Half, One>>, One,
              <<Slab(2, 2, <<Zero, N(3), N(4)>>, Ez), Slab(1, 3, GradZ, Exz)>>)],
       [camera |-> Cam2, draw |->
          Geo(TRUE, <<One, One, One, One>>, N(2),
              <<Slab(1, 5, GradZ, Exz), Slab(3, 4, GradZ, Exz)>>)],
       [camera |-> Cam4, draw |->
          Geo(FALSE, <<One, Zero, Half, Half>>, One,
              <<Slab(2, 4, GradZ, Ez), Slab(0, 2, GradZ, Exz)>>)],
       [camera |-> Cam4, draw |->
          Contour(TRUE, Half, <<One, One, One>>, Jet2,
              <<FieldRay(N(1), N(4), <<Zero, Zero, One, One>>, One, GradZ, Ez),
                FieldRay(N(2), N(4), <<One, Zero, Zero>>, Zero,
                         <<Zero, N(3), N(4)>>, Ez)>>)],
       [camera |-> Cam2, draw |->
          Contour(FALSE, Half, <<N(2), N(2), N(2)>>, Jet2,
              <<FieldRay(Zero, N(5), <<Zero, One, Zero>>, Zero, GradZ, Ez),
                MissRay>>)],
       [camera |-> Cam4, draw |->
          Contour(FALSE, Half, <<One, One, One>>,
                  << <<NaN, NaN, NaN, NaN>> >>,
              <<MissRay,
                FieldRay(N(2), N(4), <<Zero, One, One>>, Half, GradZ, Exz)>>)],
       [camera |-> Cam4, draw |->
          Volume(<<One, One, N(3)>>, Jet2,
              <<FieldRay(N(2), N(3), <<Zero, One>>, Zero, GradZ, Ez),
                FieldRay(Zero, One, <<One, One>>, Zero, GradZ, Exz)>>)],
       [camera |-> Cam2, draw |->
          Volume(<<N(2), N(2), N(3)>>, Jet2,
              <<FieldRay(Zero, N(4), <<One, One, One>>, Zero, GradZ, Ez),
                MissRay>>)] >>

\* Three more geometry draws.  Two of a surface the ray stays on (sdf = 0
\* all along the ray): a transparent one, and an opaque one drawn with
\* distance_threshold = 0.  And a transparent solid as thick as the
\* distance_threshold it is drawn with.  A transparent contour of a
\* field with samples on the threshold, and with NaN samples.  And an
\* opaque plane that the rays meet at 60 degrees, at distance 3.
KernelCalls ==
    RenderCalls \o
    << [camera |-> Cam4, draw |->
          Geo(FALSE, <<One, Zero, Half, Half>>, One,
              <<Const(0, Ez), Slab(1, 2, GradZ, Exz)>>)],
       [camera |-> Cam4, draw |->
          Geo(TRUE, <<One, Half, Zero, One>>, Zero,
              <<Slab(1, 2, GradZ, Ez), Const(0, Ez)>>)],
       [camera |-> Cam4, draw |->
          Geo(FALSE, <<Zero, One, Half, Half>>, N(2),
              <<Slab(1, 3, GradZ, Ez), Slab(1, 2, GradZ, Exz)>>)],
       [camera |-> Cam4, draw |->
          Contour(FALSE, Half, <<One, One, One>>, Jet2,
              <<FieldRay(Zero, N(4), <<Half, One, Half, Zero, One>>, Zero,
                         GradZ, Ez),
                FieldRay(Zero, N(3), <<NaN, One, Zero, NaN>>, One,
                         GradZ, Exz)>>)],
       [camera |-> Cam2, draw |->
          Geo(TRUE, <<One, Half, Zero, One>>, One,
              <<[shape |-> "plane", lo |-> N(3), hi |-> N(3), c |-> Half,
                 gradient |-> GradZ, ray_direction |-> Ez]>>)] >>

CallIds(kind) ==
    {i \in DOMAIN RenderCalls : RenderCalls[i].draw.kind = kind}

\* ------------------------------------------------------------ operations
Idle == [pc |-> "idle"]

Init ==
    /\ opaque_pixel_buffer = ScreenBuffer_init.opaque_pixel_buffer
    /\ depth_buffer = ScreenBuffer_init.depth_buffer
    /\ normal_buffer = ScreenBuffer_init.normal_buffer
    /\ transparent_pixel_buffer = ScreenBuffer_init.transparent_pixel_buffer
    /\ revealage_buffer = ScreenBuffer_init.revealage_buffer
    /\ background_buffer = ScreenBuffer_init.background_buffer
    /\ image_buffer = ScreenBuffer_init.image_buffer
    /\ array_id = NewArrayIds(0)
    /\ next_id = 7
    /\ op = [name |-> "init"]
    /\ drawn = <<>>
    /\ thread = Idle
    /\ geometries = <<>>

\* The host makes a new buffer with ScreenBuffer.from_camera(camera) and
\* goes on with it.  (A render call with screen_buffer=None is this step
\* followed by the render step on the new buffer.)
ScreenBuffer_from_camera ==
    \E camera \in {Cam4, Cam2} :
        /\ next_id < 7 * MaxBuffers
        /\ SetSB(from_camera(camera))
        /\ array_id' = NewArrayIds(next_id)
        /\ next_id' = next_id + 7
        /\ op' = [name |-> "from_camera", camera |-> camera]
        /\ drawn' = <<>>
        /\ UNCHANGED <<thread, geometries>>

\* A render entry point (volume / contour / geometry) given a screen
\* buffer: launches the kernel on the buffer and returns it
render_returns(call, r) ==
    /\ SetSB(r.sb)
    /\ op' = [name |-> RenderCalls[call].draw.kind, call |-> call,
              logs |-> r.logs, returned |-> r.returned]
    /\ drawn' = Append(drawn, call)
    /\ UNCHANGED <<array_id, next_id, geometries, thread>>

render(call) ==
    /\ Len(drawn) < MaxLaunches
    /\ render_returns(call,
           launch(RenderCalls[call].draw, RenderCalls[call].camera, SB))

volume == \E call \in CallIds("volume") : render(call)

contour == \E call \in CallIds("contour") : render(call)

geometry == \E call \in CallIds("geometry") : render(call)

\* ScreenBuffer.image: launch the combine kernel, return image_buffer
image ==
    /\ SetSB(_combine_buffers_kernel(SB))
    /\ op' = [name |-> "image",
              reads |-> IF op.name = "image" THEN 2 ELSE 1,
              writers |-> [p \in Pixels |-> Cardinality(combine_writers(p))]]
    /\ UNCHANGED <<array_id, next_id, geometries, drawn, thread>>

\* ScreenBuffer.clear
ScreenBuffer_clear ==
    /\ SetSB(clear(SB))
    /\ op' = [name |-> "clear", launches |-> Len(drawn)]
    /\ drawn' = <<>>
    /\ UNCHANGED <<array_id, next_id, geometries, thread>>

Next ==
    \/ ScreenBuffer_from_camera
    \/ volume \/ contour \/ geometry
    \/ image
    \/ ScreenBuffer_clear

Spec == Init /\ [][Next]_vars

\* ------------------------------------------------- one thread at a time
\* The same launches seen thread by thread: a thread of a launch is started
\* on its pixel, takes one loop iteration per step, and writes its pixel's
\* entries as it goes.  Threads of a launch touch only their own pixel, so
\* running them one after another loses nothing.
Thread(call, p, f) ==
    [pc |-> IF f.pc = "done" THEN "returned" ELSE "running",
     call |-> call, p |-> p, f |-> f]

\* a launch finds a new buffer, or one with an opaque layer drawn
InitK ==
    \E sb \in {ScreenBuffer_init, from_camera(Cam4),
                launch(RenderCalls[1].draw, Cam4, from_camera(Cam2)).sb,
                launch(RenderCalls[3].draw, Cam2, from_camera(Cam4)).sb} :
        /\ opaque_pixel_buffer = sb.opaque_pixel_buffer
        /\ depth_buffer = sb.depth_buffer
        /\ normal_buffer = sb.normal_buffer
        /\ transparent_pixel_buffer = sb.transparent_pixel_buffer
        /\ revealage_buffer = sb.revealage_buffer
        /\ background_buffer = sb.background_buffer
        /\ image_buffer = sb.image_buffer
        /\ array_id = NewArrayIds(0)
        /\ next_id = 7
        /\ op = [name |-> "init"]
        /\ drawn = <<>>
        /\ thread = Idle
        /\ geometries = <<>>

thread_starts(call, p, f) ==
    /\ thread' = Thread(call, p, f)
    /\ drawn' = Append(drawn, call)
    /\ UNCHANGED <<bufs, array_id, next_id, geometries, op>>

kernel_launch ==
    \E call \in DOMAIN KernelCalls, p \in Pixels :
        /\ thread.pc \in {"idle", "returned"}
        /\ Len(drawn) < MaxLaunches
        /\ thread_starts(call, p,
               kernel_start(KernelCalls[call].draw,
                            RayOf(KernelCalls[call].draw, p),
                            PixelOf(SB, p)))

thread_stores(f) ==
    /\ SetSB(store(SB, thread.p, f.px))
    /\ thread' = Thread(thread.call, thread.p, f)
    /\ UNCHANGED <<array_id, next_id, geometries, op, drawn>>

running(kind) ==
    /\ thread.pc = "running"
    /\ KernelCalls[thread.call].draw.kind = kind

render_kernel ==
    /\ running("geometry")
    /\ \E f \in {render_kernel_step(KernelCalls[thread.call].draw,
                   KernelCalls[thread.call].camera.max_depth,
                   RayOf(KernelCalls[thread.call].draw, thread.p),
                   thread.f)} :
          thread_stores(f)

contour_kernel ==
    /\ running("contour")
    /\ \E f \in {contour_kernel_step(KernelCalls[thread.call].draw,
                   KernelCalls[thread.call].camera.max_depth,
                   RayOf(KernelCalls[thread.call].draw, thread.p),
                   thread.f)} :
          thread_stores(f)

volume_kernel ==
    /\ running("volume")
    /\ \E f \in {volume_kernel_step(KernelCalls[thread.call].draw,
                   KernelCalls[thread.call].camera.max_depth,
                   RayOf(KernelCalls[thread.call].draw, thread.p),
                   thread.f)} :
          thread_stores(f)

NextK ==
    \/ kernel_launch
    \/ render_kernel
    \/ contour_kernel
    \/ volume_kernel

\* a started thread is scheduled until it returns
SpecK == InitK /\ [][NextK]_vars /\ WF_vars(NextK)

\* ------------------------------------------ the threads of one launch
\* One launch with its threads running together: wp.launch starts a thread
\* per pixel, and at each step any thread that has not returned takes one
\* loop iteration, reading its pixel's entries from the arrays and writing
\* them back.
Threads(call, sb) ==
    [p \in Pixels |->
        kernel_start(RenderCalls[call].draw, RayOf(RenderCalls[call].draw, p),
                     PixelOf(sb, p))]

wp_launch ==
    \E call \in DOMAIN RenderCalls :
        /\ thread.pc = "idle"
        /\ thread' = [pc |-> "launched", call |-> call,
                      frames |-> Threads(call, SB)]
        /\ op' = [name |-> "launch", call |-> call, sb |-> SB]
        /\ drawn' = <<call>>
        /\ UNCHANGED <<bufs, array_id, next_id, geometries>>

scheduled(kind, p) ==
    /\ thread.pc = "launched"
    /\ RenderCalls[thread.call].draw.kind = kind
    /\ thread.frames[p].pc # "done"

thread_runs(p, f) ==
    /\ SetSB(store(SB, p, f.px))
    /\ thread' = [pc |-> "launched", call |-> thread.call, last |-> p,
                  frames |-> [thread.frames EXCEPT ![p] = f]]
    /\ UNCHANGED <<array_id, next_id, geometries, op, drawn>>

\* the thread's frame with its pixel's entries as the arrays hold them now
reading(p) == [thread.frames[p] EXCEPT !.px = PixelOf(SB, p)]

render_kernel_thread ==
    \E p \in Pixels :
        /\ scheduled("geometry", p)
        /\ \E f \in {render_kernel_step(
                         RenderCalls[thread.call].draw,
                         RenderCalls[thread.call].camera.max_depth,
                         RayOf(RenderCalls[thread.call].draw, p),
                         reading(p))} :
              thread_runs(p, f)

contour_kernel_thread ==
    \E p \in Pixels :
        /\ scheduled("contour", p)
        /\ \E f \in {contour_kernel_step(
                         RenderCalls[thread.call].draw,
                         RenderCalls[thread.call].camera.max_depth,
                         RayOf(RenderCalls[thread.call].draw, p),
                         reading(p))} :
              thread_runs(p, f)

volume_kernel_thread ==
    \E p \in Pixels :
        /\ scheduled("volume", p)
        /\ \E f \in {volume_kernel_step(
                         RenderCalls[thread.call].draw,
                         RenderCalls[thread.call].camera.max_depth,
                         RayOf(RenderCalls[thread.call].draw, p),
                         reading(p))} :
              thread_runs(p, f)

NextP ==
    \/ wp_launch
    \/ render_kernel_thread
    \/ contour_kernel_thread
    \/ volume_kernel_thread

SpecP == InitK /\ [][NextP]_vars

\* ------------------------------------------------- the sampling functions
\* A 3-d array: its shape and its entries, indexed <<i, j, k>> from 0
Array3(n1, n2, n3, value) ==
    [data |-> [idx \in (0..(n1 - 1)) \X (0..(n2 - 1)) \X (0..(n3 - 1)) |->
                  value[idx[1], idx[2], idx[3]]],
     shape |-> <<n1, n2, n3>>]

\* "Clamp the index to the array"
clamp_index(i, n) ==
    IF i < 0 \/ i >= n
    THEN (IF (IF i > 0 THEN i ELSE 0) < n - 1
          THEN (IF i > 0 THEN i ELSE 0) ELSE n - 1)
    ELSE i

_safe_index_array(array, i, j, k) ==
    array.data[<<clamp_index(i, array.shape[1]),
                 clamp_index(j, array.shape[2]),
                 clamp_index(k, array.shape[3])>>]

\* v_a * (1.0 - d) + v_b * d
lerp(v_a, v_b, d) ==
    LET mix[a \in Rat, b \in Rat, t \in Rat] ==
            QAdd(QMul(a, QSub(One, t)), QMul(b, t))
    IN  mix[v_a, v_b, d]

_trilinear_interpolation(v_000, v_100, v_010, v_110, v_001, v_101, v_011, v_111, dx, dy, dz) ==
    lerp(lerp(lerp(v_000, v_100, dx), lerp(v_010, v_110, dx), dy),
         lerp(lerp(v_001, v_101, dx), lerp(v_011, v_111, dx), dy),
         dz)

\* the position in index units along one axis, its lower index and the
\* fractional part
index_coordinate(position, origin, spacing, axis) ==
    QDiv(QSub(position[axis], origin[axis]), spacing[axis])
lower_index(position, origin, spacing, axis) ==
    QInt(index_coordinate(position, origin, spacing, axis))
fraction(position, origin, spacing, axis) ==
    LET frac[c \in Rat] == QSub(c, N(QInt(c)))
    IN  frac[index_coordinate(position, origin, spacing, axis)]

sample_at(array, i, j, k, dx, dy, dz) ==
    _trilinear_interpolation(
        _safe_index_array(array, i, j, k),
        _safe_index_array(array, i + 1, j, k),
        _safe_index_array(array, i, j + 1, k),
        _safe_index_array(array, i + 1, j + 1, k),
        _safe_index_array(array, i, j, k + 1),
        _safe_index_array(array, i + 1, j, k + 1),
        _safe_index_array(array, i, j + 1, k + 1),
        _safe_index_array(array, i + 1, j + 1, k + 1),
        dx, dy, dz)

sample_array(array, spacing, origin, position) ==
    sample_at(array,
              lower_index(position, origin, spacing, 1),
              lower_index(position, origin, spacing, 2),
              lower_index(position, origin, spacing, 3),
              fraction(position, origin, spacing, 1),
              fraction(position, origin, spacing, 2),
              fraction(position, origin, spacing, 3))

\* wp.min and wp.max of two floats.  With a nan operand the result depends
\* on how the build computes them: nan names the operand returned then
\* ("second" for a < b ? a : b, "first" for b < a ? b : a, "number" for the
\* operand that is not nan, as fminf does).
nan_operand(a, b, nan) ==
    IF nan = "first" THEN a
    ELSE IF nan = "second" THEN b
    ELSE IF IsNaN(a) THEN b ELSE a
wp_min(a, b, nan) ==
    LET min[x \in Rat, y \in Rat] ==
            IF IsNaN(x) \/ IsNaN(y) THEN nan_operand(x, y, nan)
            ELSE IF QLt(x, y) THEN x ELSE y
    IN  min[a, b]
wp_max(a, b, nan) ==
    LET max[x \in Rat, y \in Rat] ==
            IF IsNaN(x) \/ IsNaN(y) THEN nan_operand(x, y, nan)
            ELSE IF QGt(x, y) THEN x ELSE y
    IN  max[a, b]

\* (bound - ray_origin) / ray_direction along one axis
t_plane(bound, ray_origin, ray_direction, axis) ==
    QDiv(QSub(bound[axis], ray_origin[axis]), ray_direction[axis])
tmmin(box_origin, box_upper, ray_origin, ray_direction, axis, nan) ==
    wp_min(t_plane(box_origin, ray_origin, ray_direction, axis),
           t_plane(box_upper, ray_origin, ray_direction, axis), nan)
tmmax(box_origin, box_upper, ray_origin, ray_direction, axis, nan) ==
    wp_max(t_plane(box_origin, ray_origin, ray_direction, axis),
           t_plane(box_upper, ray_origin, ray_direction, axis), nan)

\* returns <<t0, t1>>
ray_intersect_box(box_origin, box_upper, ray_origin, ray_direction, nan) ==
    <<wp_max(Zero,
             wp_max(tmmin(box_origin, box_upper, ray_origin, ray_direction, 1, nan),
                    wp_max(tmmin(box_origin, box_upper, ray_origin, ray_direction, 2, nan),
                           tmmin(box_origin, box_upper, ray_origin, ray_direction, 3, nan),
                           nan),
                    nan),
             nan),
      wp_min(tmmax(box_origin, box_upper, ray_origin, ray_direction, 1, nan),
             wp_min(tmmax(box_origin, box_upper, ray_origin, ray_direction, 2, nan),
                    tmmax(box_origin, box_upper, ray_origin, ray_direction, 3, nan),
                    nan),
             nan)>>

\* ---- the calls of the sampling functions
\* a call of one of the functions, with its arguments and what it returns
called(name, args, result) ==
    /\ op.name = "init"
    /\ op' = [args |-> args, name |-> name, result |-> result]
    /\ UNCHANGED <<bufs, array_id, next_id, geometries, drawn, thread>>

\* Arrays of volume data (finite values, and data with a nan or an inf
\* node), their origins and spacings, and positions in half steps of the
\* spacing: h = <<a, b, c>> stands for origin + (a/2, b/2, c/2) * spacing,
\* from half a cell below the array to half a cell above it
call_sample_array ==
    LET ramp[i \in Nat, j \in Nat, k \in Nat] == N(4 * i + 2 * j + k)
        bump[i \in Nat, j \in Nat, k \in Nat] ==
            IF <<i, j, k>> = <<1, 1, 1>> THEN N(-3) ELSE Q(i + j, 2)
        holed[i \in Nat, j \in Nat, k \in Nat] ==
            IF <<i, j, k>> = <<1, 0, 0>> THEN NaN ELSE N(i + j + k + 1)
        peaked[i \in Nat, j \in Nat, k \in Nat] ==
            IF <<i, j, k>> = <<1, 1, 0>> THEN Inf ELSE N(i - k)
    IN  \E array \in {Array3(2, 2, 2, ramp), Array3(2, 3, 2, bump),
                       Array3(2, 2, 2, holed), Array3(2, 2, 3, peaked)} :
            \E origin \in {<<Zero, Zero, Zero>>, <<One, N(-1), Half>>},
               spacing \in {<<One, One, One>>, <<Half, N(2), One>>},
               h \in ((-1)..(2 * array.shape[1] - 1))
                        \X ((-1)..(2 * array.shape[2] - 1))
                        \X ((-1)..(2 * array.shape[3] - 1)) :
                called("sample_array",
                       [array |-> array, h |-> h, origin |-> origin,
                        spacing |-> spacing],
                       sample_array(
                           array, spacing, origin,
                           <<QAdd(origin[1], QMul(Q(h[1], 2), spacing[1])),
                             QAdd(origin[2], QMul(Q(h[2], 2), spacing[2])),
                             QAdd(origin[3], QMul(Q(h[3], 2), spacing[3]))>>))

NanOperands == {"first", "second", "number"}

\* Boxes, ray origins on and around them, and unit ray directions, along
\* the axes and oblique
call_ray_intersect_box ==
    \E box \in {[lower |-> <<Zero, Zero, Zero>>,
                  upper |-> <<N(2), N(2), N(2)>>],
                 [lower |-> <<One, N(-1), Zero>>,
                  upper |-> <<N(2), One, N(2)>>]},
       ray_origin \in {<<N(x), N(y), N(z)>> :
                          x \in -1..3, y \in {-2, 0, 1, 2}, z \in {-1, 1, 2}} :
        \E ray_direction \in
               {<<One, Zero, Zero>>, <<N(-1), Zero, Zero>>, <<Zero, One, Zero>>,
                <<Zero, Zero, N(-1)>>, <<Q(3, 5), Zero, Q(4, 5)>>,
                <<Q(3, 5), Q(-4, 5), Zero>>, <<Q(2, 3), Q(2, 3), Q(1, 3)>>,
                <<Q(-2, 3), Q(1, 3), Q(-2, 3)>>},
           nan \in NanOperands :
            called("ray_intersect_box",
                   [box |-> box, nan |-> nan, ray_direction |-> ray_direction,
                    ray_origin |-> ray_origin],
                   ray_intersect_box(box.lower, box.upper, ray_origin,
                                     ray_direction, nan))

\* ScreenBuffer.__init__ for any height and width: the seven arrays with
\* the shapes asked for, (height, width) pixels each.  No statement of it
\* tests height or width, and none raises.
ScreenBuffer(height, width) ==
    LET full(value) ==
            [p \in (0..(height - 1)) \X (0..(width - 1)) |-> value]
    IN  [background_buffer |-> full(Vec3Zero),
         depth_buffer |-> full(Inf),
         height |-> height,
         image_buffer |-> full(<<Zero, Zero, Zero, Zero>>),
         normal_buffer |-> full(Vec3Zero),
         opaque_pixel_buffer |-> full(Vec3Zero),
         revealage_buffer |-> full(One),
         transparent_pixel_buffer |-> full(Vec3Zero),
         width |-> width]

\* ScreenBuffer(height, width), and ScreenBuffer.from_camera(camera), which
\* calls ScreenBuffer(camera.height, camera.width) and fills the background
MaxExtent == 2
call_ScreenBuffer ==
    \E height \in 0..MaxExtent, width \in 0..MaxExtent :
        \/ called("__init__", [height |-> height, width |-> width],
                  [raised |-> "", value |-> ScreenBuffer(height, width)])
        \/ \E camera \in {Cam4, Cam2} :
              called("from_camera",
                     [background |-> camera.background, height |-> height,
                      width |-> width],
                     [raised |-> "",
                      value |-> [ScreenBuffer(height, width) EXCEPT
                                    !.background_buffer =
                                        [p \in DOMAIN @ |-> camera.background]]])

\* ---- utils/backends.py
\* An array is [id, type]: the object and its type.  installed holds the
\* optional backends whose import succeeded; the module name of one whose
\* import failed (jnp, torch) is unbound, so an isinstance test that names
\* it raises NameError.  A result is [raised, value].
converted(target) == [raised |-> "", value |-> [id |-> 2, type |-> target]]
raising(error) == [raised |-> error, value |-> [id |-> 0, type |-> ""]]

backend_to_cupy(backend_array, installed) ==
    IF backend_array.type = "cp.ndarray"
    THEN [raised |-> "", value |-> backend_array]
    ELSE IF "jax" \notin installed THEN raising("NameError")
    ELSE IF backend_array.type = "jnp.ndarray" THEN converted("cp.ndarray")
    ELSE IF backend_array.type = "wp.array" THEN converted("cp.ndarray")
    ELSE IF "torch" \notin installed THEN raising("NameError")
    ELSE IF backend_array.type = "torch.Tensor" THEN converted("cp.ndarray")
    ELSE raising("ValueError")

to_warp(input_array, installed) ==
    IF input_array.type = "wp.array"
    THEN [raised |-> "", value |-> input_array]
    ELSE IF input_array.type = "cp.ndarray" THEN converted("wp.array")
    ELSE IF "jax" \notin installed THEN raising("NameError")
    ELSE IF input_array.type = "jnp.ndarray" THEN converted("wp.array")
    ELSE IF input_array.type = "np.ndarray" THEN converted("wp.array")
    ELSE IF "torch" \notin installed THEN raising("NameError")
    ELSE IF input_array.type = "torch.Tensor" THEN converted("wp.array")
    ELSE raising("ValueError")

\* the arrays a caller can hold: of cupy, numpy and warp, of a type no
\* branch names (a list), and of each optional backend that is installed
call_backends ==
    \E installed \in SUBSET {"jax", "torch"} :
        \E type \in {"cp.ndarray", "np.ndarray", "wp.array", "list"}
                        \cup (IF "jax" \in installed
                              THEN {"jnp.ndarray"} ELSE {})
                        \cup (IF "torch" \in installed
                              THEN {"torch.Tensor"} ELSE {}) :
            \/ called("backend_to_cupy",
                      [array |-> [id |-> 1, type |-> type],
                       installed |-> installed],
                      backend_to_cupy([id |-> 1, type |-> type], installed))
            \/ called("to_warp",
                      [array |-> [id |-> 1, type |-> type],
                       installed |-> installed],
                      to_warp([id |-> 1, type |-> type], installed))

\* ---- render/camera.py
cross(a, b) ==
    LET product[u \in Vec3, v \in Vec3] ==
            <<QSub(QMul(u[2], v[3]), QMul(u[3], v[2])),
              QSub(QMul(u[3], v[1]), QMul(u[1], v[3])),
              QSub(QMul(u[1], v[2]), QMul(u[2], v[1]))>>
    IN  product[a, b]

\* The returned unit vector is kept as the vector that is normalized and
\* the square of its length: it stands for direction / sqrt(squared_length).
\* tan(pi / 4) is 1.
calculate_ray_direction(x, y, img_width, img_height, camera_position, camera_focal, camera_up) ==
    LET forward ==
            normalize(<<QSub(camera_focal[1], camera_position[1]),
                        QSub(camera_focal[2], camera_position[2]),
                        QSub(camera_focal[3], camera_position[3])>>)
        right == normalize(cross(forward, camera_up))
        up == cross(right, forward)
        center == Add3(camera_position, forward)
        aspect_ratio == Q(img_height, img_width)
        s == QMul(QDiv(QSub(N(x), Q(img_height, 2)), N(img_height)),
                  QMul(aspect_ratio, One))
        t == QMul(QDiv(QSub(N(y), Q(img_width, 2)), N(img_width)), One)
        point_on_image_plane ==
            Add3(center, Add3(Scale3(right, s), Scale3(up, t)))
        ray_direction ==
            <<QSub(point_on_image_plane[1], camera_position[1]),
              QSub(point_on_image_plane[2], camera_position[2]),
              QSub(point_on_image_plane[3], camera_position[3])>>
    IN  [direction |-> ray_direction,
         squared_length |-> Dot(ray_direction, ray_direction)]

\* The call the three kernels make for the thread of pixel (x, y) of a
\* height x width buffer: calculate_ray_direction(x, y, shape[0], shape[1],
\* ...) with the shape of a buffer indexed [y, x], so that img_width
\* receives the height and img_height the width.
call_calculate_ray_direction ==
    \E height \in 1..(2 * MaxExtent), width \in 1..(2 * MaxExtent) :
        \E x \in 0..(width - 1), y \in 0..(height - 1),
           camera \in {[focal_point |-> <<Zero, Zero, N(2)>>,
                        position |-> Vec3Zero,
                        view_up |-> <<Zero, One, Zero>>],
                       [focal_point |-> <<N(4), Zero, N(3)>>,
                        position |-> <<One, Zero, N(-1)>>,
                        view_up |-> <<Zero, N(2), Zero>>],
                       [focal_point |-> <<Zero, N(3), N(4)>>,
                        position |-> Vec3Zero,
                        view_up |-> <<One, Zero, Zero>>]} :
            called("calculate_ray_direction",
                   [camera |-> camera, height |-> height, width |-> width,
                    x |-> x, y |-> y],
                   calculate_ray_direction(x, y, height, width,
                                           camera.position,
                                           camera.focal_point,
                                           camera.view_up))

NextU ==
    \/ call_sample_array
    \/ call_ray_intersect_box
    \/ call_ScreenBuffer
    \/ call_backends
    \/ call_calculate_ray_direction

SpecU == Init /\ [][NextU]_vars

\* ------------------------------------------------ objects/geometry.py
\* A Geometry object: a signed distance function, the two corners of its
\* bounding box and the distance threshold used when rendering.  A signed
\* distance function is kept as the expression its closure evaluates.
Geometry(new_sdf, lower_bound, upper_bound, distance_threshold) ==
    [distance_threshold |-> distance_threshold, lower_bound |-> lower_bound,
     sdf |-> new_sdf, upper_bound |-> upper_bound]

\* wp.quat_rotate(q, v) with q = (x, y, z, w): v rotated by the quaternion,
\* v*(2w^2 - 1) + 2w*(q.xyz x v) + 2*q.xyz*(q.xyz . v)
quat_rotate(q, v) ==
    LET rotated[u \in Vec3, w \in Rat, p \in Vec3] ==
            Add3(Add3(Scale3(p, QSub(QMul(N(2), QMul(w, w)), One)),
                      Scale3(cross(u, p), QMul(N(2), w))),
                 Scale3(u, QMul(N(2), Dot(u, p))))
    IN  rotated[<<q[1], q[2], q[3]>>, q[4], v]

\* The value of a signed distance function at pos: the functions given to
\* the constructor (a cube in the maximum norm, a half space) and the
\* new_sdf closures of the combinators
RECURSIVE sdf_at(_, _, _)
sdf_at(f, pos, nan) ==
    LET at[p \in Vec3] ==
            CASE f.kind = "cube" ->
                     QSub(QMax(QAbs(QSub(p[1], f.center[1])),
                               QMax(QAbs(QSub(p[2], f.center[2])),
                                    QAbs(QSub(p[3], f.center[3])))),
                          f.half)
              [] f.kind = "halfspace" -> QSub(Dot(f.normal, p), f.offset)
              [] f.kind = "sdf_union" ->
                     wp_min(sdf_at(f.sdf, p, nan),
                            sdf_at(f.other_sdf, p, nan), nan)
              [] f.kind = "sdf_difference" ->
                     wp_max(sdf_at(f.self.sdf, p, nan),
                            QNeg(sdf_at(f.other.sdf, p, nan)), nan)
              [] f.kind = "sdf_intersect" ->
                     wp_max(sdf_at(f.self.sdf, p, nan),
                            sdf_at(f.other.sdf, p, nan), nan)
              [] f.kind = "translate_sdf" ->
                     sdf_at(f.sdf,
                            <<QSub(p[1], f.translation[1]),
                              QSub(p[2], f.translation[2]),
                              QSub(p[3], f.translation[3])>>, nan)
              [] f.kind = "rotate_sdf" ->
                     sdf_at(f.sdf, quat_rotate(f.q, p), nan)
    IN  at[pos]

\* (variant: the union keeps the threshold of its left operand)
__add__left_threshold(self, other) ==
    Geometry([kind |-> "sdf_union", other_sdf |-> other.sdf, sdf |-> self.sdf],
             <<QMin(self.lower_bound[1], other.lower_bound[1]),
               QMin(self.lower_bound[2], other.lower_bound[2]),
               QMin(self.lower_bound[3], other.lower_bound[3])>>,
             <<QMax(self.upper_bound[1], other.upper_bound[1]),
               QMax(self.upper_bound[2], other.upper_bound[2]),
               QMax(self.upper_bound[3], other.upper_bound[3])>>,
             self.distance_threshold)

\* self + other (union)
__add__(self, other) ==
    Geometry([kind |-> "sdf_union", other_sdf |-> other.sdf, sdf |-> self.sdf],
             <<QMin(self.lower_bound[1], other.lower_bound[1]),
               QMin(self.lower_bound[2], other.lower_bound[2]),
               QMin(self.lower_bound[3], other.lower_bound[3])>>,
             <<QMax(self.upper_bound[1], other.upper_bound[1]),
               QMax(self.upper_bound[2], other.upper_bound[2]),
               QMax(self.upper_bound[3], other.upper_bound[3])>>,
             QMin(self.distance_threshold, other.distance_threshold))

\* (variant: the difference takes the bounding box of the right operand)
__sub__other_bounds(self, other) ==
    Geometry([kind |-> "sdf_difference", other |-> other, self |-> self],
             other.lower_bound, other.upper_bound, self.distance_threshold)

\* self - other (difference)
__sub__(self, other) ==
    Geometry([kind |-> "sdf_difference", other |-> other, self |-> self],
             self.lower_bound, self.upper_bound, self.distance_threshold)

\* self & other (intersection)
__and__(self, other) ==
    Geometry([kind |-> "sdf_intersect", other |-> other, self |-> self],
             <<QMax(self.lower_bound[1], other.lower_bound[1]),
               QMax(self.lower_bound[2], other.lower_bound[2]),
               QMax(self.lower_bound[3], other.lower_bound[3])>>,
             <<QMin(self.upper_bound[1], other.upper_bound[1]),
               QMin(self.upper_bound[2], other.upper_bound[2]),
               QMin(self.upper_bound[3], other.upper_bound[3])>>,
             QMin(self.distance_threshold, other.distance_threshold))

translate(self, translation) ==
    Geometry([kind |-> "translate_sdf", sdf |-> self.sdf,
              translation |-> translation],
             Add3(self.lower_bound, translation),
             Add3(self.upper_bound, translation),
             self.distance_threshold)

\* angle is given by c = math.cos(angle / 2.0) and s = math.sin(angle / 2.0);
\* q = (c, axis * s) is handed to wp.quat in the order x, y, z, w
rotate(self, angle, axis) ==
    Geometry([kind |-> "rotate_sdf",
              q |-> <<QMul(axis[1], angle.s), QMul(axis[2], angle.s),
                      QMul(axis[3], angle.s), angle.c>>,
              sdf |-> self.sdf],
             self.lower_bound, self.upper_bound, self.distance_threshold)

\* ---- the construction of geometries
\* a new Geometry object is made; the objects made before stay as they are
MaxGeometries == 3
constructed(name, args, made) ==
    /\ Len(geometries) < MaxGeometries
    /\ geometries' = Append(geometries, made)
    /\ op' = [args |-> args, name |-> name, result |-> Len(geometries) + 1]
    /\ UNCHANGED <<bufs, array_id, next_id, drawn, thread>>

\* the constructor, given a cube in the maximum norm or a half space
Geometry_init ==
    \E made \in
         {Geometry([center |-> <<N(2), Zero, One>>, half |-> Q(3, 2),
                    kind |-> "cube"],
                   <<Half, Q(-3, 2), Q(-1, 2)>>, <<Q(7, 2), Q(3, 2), Q(5, 2)>>,
                   Q(1, 100)),
          Geometry([kind |-> "halfspace",
                    normal |-> <<Q(3, 5), Zero, Q(4, 5)>>, offset |-> Q(3, 2)],
                   <<N(-2), N(-2), N(-2)>>, <<N(2), N(2), N(2)>>, Q(1, 10))} :
        constructed("__init__", <<>>, made)
Geometry_add ==
    \E i \in DOMAIN geometries, j \in DOMAIN geometries :
        constructed("__add__", <<i, j>>, __add__(geometries[i], geometries[j]))
Geometry_sub ==
    \E i \in DOMAIN geometries, j \in DOMAIN geometries :
        constructed("__sub__", <<i, j>>, __sub__(geometries[i], geometries[j]))
Geometry_and ==
    \E i \in DOMAIN geometries, j \in DOMAIN geometries :
        constructed("__and__", <<i, j>>, __and__(geometries[i], geometries[j]))
Geometry_translate ==
    \E i \in DOMAIN geometries, translation \in {<<Half, One, N(-2)>>} :
        constructed("translate", <<i, translation>>,
                    translate(geometries[i], translation))
\* rotations by angles whose half has a rational cosine c and sine s (pi,
\* 2*atan(3/4), 2*atan(4/3)), about unit axes
Geometry_rotate ==
    \E i \in DOMAIN geometries :
        \E r \in {[angle |-> [c |-> Zero, s |-> One],
                    axis |-> <<One, Zero, Zero>>],
                   [angle |-> [c |-> Q(4, 5), s |-> Q(3, 5)],
                    axis |-> <<Zero, Zero, One>>],
                   [angle |-> [c |-> Q(3, 5), s |-> Q(4, 5)],
                    axis |-> <<Q(2, 3), Q(2, 3), Q(1, 3)>>]} :
            constructed("rotate", <<i, r.angle, r.axis>>,
                        rotate(geometries[i], r.angle, r.axis))

NextG ==
    \/ Geometry_init
    \/ Geometry_add
    \/ Geometry_sub
    \/ Geometry_and
    \/ Geometry_translate
    \/ Geometry_rotate

SpecG == Init /\ [][NextG]_vars

\* ================================================================ claims
Kinds == {"volume", "contour", "geometry"}

\* C1: after any sequence of launches, clear() leaves every pixel with
\* depth = +inf, revealage = 1, opaque colour, transparent accumulation,
\* normal and image all 0, in the same array objects (none reallocated).
C1_ClearResetsInPlace ==
    [][op'.name = "clear" =>
         /\ \A p \in Pixels :
               /\ depth_buffer'[p] = Inf
               /\ revealage_buffer'[p] = One
               /\ opaque_pixel_buffer'[p] = Vec3Zero
               /\ transparent_pixel_buffer'[p] = Vec3Zero
               /\ normal_buffer'[p] = Vec3Zero
               /\ image_buffer'[p] = <<Zero, Zero, Zero, Zero>>
         /\ array_id' = array_id]_vars

\* a clear that wiped a buffer which launches had written, on the second
\* ScreenBuffer made
C1_Witness ==
    /\ op.name = "clear"
    /\ op.launches = MaxLaunches
    /\ array_id["depth_buffer"] = 8
    /\ \A p \in Pixels : depth_buffer[p] = Inf /\ revealage_buffer[p] = One

\* C2: the composited pixel is base*(1-alpha) + transparent_accum*alpha with
\* base = opaque_color if depth < inf else background, alpha = 1 - revealage,
\* output alpha 1; a pixel with depth = inf and revealage = 1 shows exactly
\* its background.
C2_CompositeFormula ==
    op.name = "image" =>
        \A p \in Pixels :
            LET base == IF QLt(depth_buffer[p], Inf)
                        THEN opaque_pixel_buffer[p]
                        ELSE background_buffer[p]
                alpha == QSub(One, revealage_buffer[p])
                acc == transparent_pixel_buffer[p]
                out == image_buffer[<<Height - 1 - p[1], p[2]>>]
            IN  /\ \A c \in 1..3 :
                      out[c] = QAdd(QMul(base[c], QSub(One, alpha)),
                                    QMul(acc[c], alpha))
                /\ out[4] = One
                /\ (depth_buffer[p] = Inf /\ revealage_buffer[p] = One)
                      => <<out[1], out[2], out[3]>> = background_buffer[p]

\* an image read where one pixel blends an opaque colour with a partly
\* revealed transparency layer and another shows a non-black background
C2_Witness ==
    /\ op.name = "image"
    /\ \E p \in Pixels :
          /\ QLt(depth_buffer[p], Inf)
          /\ QLt(Zero, revealage_buffer[p]) /\ QLt(revealage_buffer[p], One)
          /\ transparent_pixel_buffer[p] # Vec3Zero
    /\ \E p \in Pixels :
          /\ depth_buffer[p] = Inf /\ revealage_buffer[p] = One
          /\ background_buffer[p] # Vec3Zero

\* C3: the value computed from internal row y, column x is written to image
\* row height-1-y, column x; over a launch every image entry is written by
\* exactly one thread.
C3_VerticalFlip ==
    op.name = "image" =>
        \A p \in Pixels :
            /\ image_buffer[<<Height - 1 - p[1], p[2]>>]
                  = combine_pixel(SB, p[1], p[2])
            /\ op.writers[p] = 1

\* an image read whose first and last internal rows composite differently
C3_Witness ==
    /\ op.name = "image"
    /\ combine_pixel(SB, 0, 0) # combine_pixel(SB, Height - 1, 0)
    /\ image_buffer[<<0, 0>>] = combine_pixel(SB, Height - 1, 0)

\* C4: reading the composited image changes none of opaque_color, depth,
\* normal, transparent_accum, revealage, background.
C4_ImageOnlyWritesImage ==
    [][op'.name = "image" =>
         UNCHANGED <<opaque_pixel_buffer, depth_buffer, normal_buffer,
                     transparent_pixel_buffer, revealage_buffer,
                     background_buffer>>]_vars

\* an image read of a buffer with both layers written, which changed the
\* image
C4_Witness ==
    /\ op.name = "image"
    /\ \E p \in Pixels : QLt(depth_buffer[p], Inf)
    /\ \E p \in Pixels : revealage_buffer[p] # One
    /\ \E p \in Pixels : image_buffer[p] # <<Zero, Zero, Zero, Zero>>

\* C5: a second read of the image, with nothing in between, returns the
\* same value for every pixel and channel.
C5_ImageIdempotent ==
    [][(op'.name = "image" /\ op'.reads = 2) =>
         image_buffer' = image_buffer]_vars

\* the second of two consecutive reads, of a buffer that launches wrote
C5_Witness ==
    /\ op.name = "image" /\ op.reads = 2
    /\ Len(drawn) > 0
    /\ \E p \in Pixels, c \in 1..3 : image_buffer[p][c] # Zero

\* the fragment a thread step has just logged, if it logged one
logged == thread'.f.log[Len(thread'.f.log)]
logs_fragment(layer) ==
    /\ thread.pc = "running"
    /\ Len(thread'.f.log) = Len(thread.f.log) + 1
    /\ logged.layer = layer

\* C6: every transparent accumulation by the volume, contour and geometry
\* kernels multiplies the pixel's revealage by a factor in [0,1]: no kernel
\* step increases a pixel's revealage, and revealage stays within [0,1].
C6_RevealageMonotone ==
    [][thread.pc = "running" =>
         \A p \in Pixels :
            /\ QLe(revealage_buffer'[p], revealage_buffer[p])
            /\ QLe(Zero, revealage_buffer'[p])
            /\ QLe(revealage_buffer'[p], One)]_vars

\* C7: over kernel launches a pixel's depth never increases; it changes only
\* in an opaque launch whose thread wrote a hit at a distance that was not
\* beyond the depth stored then, the new depth being that distance;
\* transparent launches and misses leave depth alone; a pixel whose depth
\* is +inf has opaque colour and normal 0.
C7_DepthOnlyDecreases ==
    /\ [](\A p \in Pixels :
             depth_buffer[p] = Inf =>
                /\ opaque_pixel_buffer[p] = Vec3Zero
                /\ normal_buffer[p] = Vec3Zero)
    /\ [][op'.name \in Kinds =>
            \A p \in Pixels :
               /\ QLe(depth_buffer'[p], depth_buffer[p])
               /\ depth_buffer'[p] # depth_buffer[p] =>
                     /\ RenderCalls[op'.call].draw.opaque
                     /\ Len(op'.logs[p]) = 1
                     /\ op'.logs[p][1].layer = "opaque"
                     /\ op'.logs[p][1].stored = depth_buffer[p]
                     /\ QLe(op'.logs[p][1].distance, depth_buffer[p])
                     /\ depth_buffer'[p] = op'.logs[p][1].distance
               /\ ~RenderCalls[op'.call].draw.opaque =>
                     /\ depth_buffer'[p] = depth_buffer[p]
                     /\ opaque_pixel_buffer'[p] = opaque_pixel_buffer[p]
                     /\ normal_buffer'[p] = normal_buffer[p]
               /\ op'.logs[p] = <<>> =>
                     depth_buffer'[p] = depth_buffer[p]]_vars

\* a second launch on a buffer, opaque, in which one thread lowered a
\* finite stored depth and another, on a pixel with a stored depth, wrote
\* nothing
C7_Witness ==
    /\ op.name \in Kinds
    /\ Len(drawn) = MaxLaunches
    /\ \E p \in Pixels :
          /\ op.logs[p] # <<>>
          /\ op.logs[p][1].layer = "opaque"
          /\ op.logs[p][1].stored # Inf
          /\ QLt(op.logs[p][1].distance, op.logs[p][1].stored)
          /\ depth_buffer[p] = op.logs[p][1].distance
    /\ \E q \in Pixels :
          /\ op.logs[q] = <<>>
          /\ QLt(depth_buffer[q], Inf)

\* the launches of calls onto sb, in the order given
RECURSIVE render_all(_, _)
render_all(calls, sb) ==
    IF calls = <<>> THEN sb
    ELSE render_all(Tail(calls),
                    launch(RenderCalls[Head(calls)].draw,
                           RenderCalls[Head(calls)].camera, sb).sb)

Orders(n) ==
    {f \in [1..n -> 1..n] : \A i, j \in 1..n : f[i] = f[j] => i = j}

\* C8: opaque draws launched one after another onto a cleared buffer leave
\* the same opaque layer (depth, opaque colour, normal of every pixel)
\* whatever the order of the launches.
C8_OpaqueOrderIndependent ==
    (/\ Len(drawn) > 1
     /\ \A i \in DOMAIN drawn : RenderCalls[drawn[i]].draw.opaque)
    => \A order \in Orders(Len(drawn)) :
          LET sb == render_all([i \in DOMAIN drawn |-> drawn[order[i]]],
                               ScreenBuffer_init)
          IN  /\ sb.depth_buffer = depth_buffer
              /\ sb.opaque_pixel_buffer = opaque_pixel_buffer
              /\ sb.normal_buffer = normal_buffer

\* C9: every thread of a kernel launch, once started, returns.
\* (A thread whose loop iteration leaves every local unchanged -- sdf = 0
\* with distance_threshold = 0 in the marching loop, or the pass-through
\* loop once distance_traveled no longer grows -- repeats that iteration
\* for ever: the state stays the same and the thread stays running.)
C9_EveryThreadReturns ==
    (thread.pc = "running") ~> (thread.pc = "returned")

\* C10: every transparent accumulation, by any of the three kernels, is
\* the WBOIT update with weight = 1/((distance/max_depth)^2 + 1):
\* transparent += rgb * weight * alpha * (intensity or step_size) and
\* revealage *= (1 - alpha * weight).
C10_SameWboitUpdate ==
    [][logs_fragment("transparent") =>
         LET p == thread.p
             weight ==
                 wboit_weight(logged.distance,
                              KernelCalls[thread.call].camera.max_depth)
         IN  /\ transparent_pixel_buffer'[p] =
                   Add3(transparent_pixel_buffer[p],
                        Scale3(logged.rgb,
                               QMul(QMul(weight, logged.alpha),
                                    logged.scale)))
             /\ revealage_buffer'[p] =
                   QMul(revealage_buffer[p],
                        QSub(One, QMul(logged.alpha, weight)))]_vars

\* The distance at which sphere tracing from the camera first finds
\* |sdf| < distance_threshold at a position before max_depth; +inf if it
\* never does.  s is the position reached so far.
RECURSIVE first_hit(_, _, _, _, _)
first_hit(distance_threshold, max_depth, ray, s, fuel) ==
    LET from[pos \in Rat, d \in Rat] ==
            IF fuel = 0 \/ ~QLt(pos, max_depth) THEN Inf
            ELSE IF QLt(d, distance_threshold) THEN QAdd(pos, d)
            ELSE first_hit(distance_threshold, max_depth, ray,
                           QAdd(pos, d), fuel - 1)
    IN  from[s, QAbs(sdf(ray, s))]

\* C11: one opaque geometry rendered onto a fresh buffer: a pixel whose ray
\* reaches |sdf| < distance_threshold before max_depth has depth < inf and
\* opaque colour = colour * |dot(normalized gradient, ray direction)|; a
\* pixel whose ray never does keeps depth = inf, has none of its buffer
\* entries written, and composites to its background colour.
C11_SingleOpaqueGeometry ==
    (/\ op.name = "geometry"
     /\ Len(drawn) = 1
     /\ RenderCalls[op.call].draw.opaque)
    => \A p \in Pixels :
          LET draw == RenderCalls[op.call].draw
              ray == RayOf(draw, p)
              hit == first_hit(draw.distance_threshold,
                               RenderCalls[op.call].camera.max_depth,
                               ray, Zero, MaxIter)
          IN  IF hit # Inf
              THEN /\ QLt(depth_buffer[p], Inf)
                   /\ depth_buffer[p] = hit
                   /\ opaque_pixel_buffer[p] =
                         Scale3(Rgb(draw.color_map_array[1]),
                                QAbs(Dot(normalize(ray.gradient),
                                         ray.ray_direction)))
              ELSE /\ depth_buffer[p] = Inf
                   /\ opaque_pixel_buffer[p] = Vec3Zero
                   /\ normal_buffer[p] = Vec3Zero
                   /\ transparent_pixel_buffer[p] = Vec3Zero
                   /\ revealage_buffer[p] = One
                   /\ op.logs[p] = <<>>
                   /\ combine_pixel(SB, p[1], p[2]) =
                         <<background_buffer[p][1], background_buffer[p][2],
                           background_buffer[p][3], One>>

\* an opaque geometry drawn on a new buffer with a coloured background: one
\* pixel is hit and shaded darker than the colour, another is missed
C11_Witness ==
    /\ op.name = "geometry" /\ Len(drawn) = 1
    /\ RenderCalls[op.call].draw.opaque
    /\ \E p \in Pixels :
          /\ QLt(depth_buffer[p], Inf)
          /\ opaque_pixel_buffer[p] # Vec3Zero
          /\ opaque_pixel_buffer[p] #
                Rgb(RenderCalls[op.call].draw.color_map_array[1])
    /\ \E p \in Pixels :
          /\ depth_buffer[p] = Inf
          /\ background_buffer[p] # Vec3Zero

\* C12: in a launch, the invocation for a pixel reads and writes only that
\* pixel's entries of the five arrays of the screen buffer: a step of a
\* thread leaves every other pixel's entries (and the background and image)
\* as they were, and when all threads have returned the buffers are what
\* the launch gives with its threads run one after another, whatever the
\* interleaving was.
C12_PixelIsolation ==
    /\ [][thread.pc = "launched" =>
            /\ \A q \in Pixels \ {thread'.last} :
                  PixelOf(SB, q) = PixelOf(SB, q)'
            /\ UNCHANGED <<background_buffer, image_buffer>>]_vars
    /\ []((/\ thread.pc = "launched"
           /\ \A p \in Pixels : thread.frames[p].pc = "done")
          => SB = launch(RenderCalls[thread.call].draw,
                         RenderCalls[thread.call].camera, op.sb).sb)

\* a finished launch whose threads took turns: two pixels were written, and
\* the thread that stepped last is not the one that wrote last in row-major
\* order
C12_Witness ==
    /\ thread.pc = "launched"
    /\ \A p \in Pixels : thread.frames[p].pc = "done"
    /\ \E p, q \in Pixels :
          /\ p # q
          /\ PixelOf(SB, p) # PixelOf(op.sb, p)
          /\ PixelOf(SB, q) # PixelOf(op.sb, q)
          /\ thread.last = <<0, 0>>
          /\ Len(thread.frames[<<0, 0>>].log) > 0

\* C13: for a grid of at least 2x2x2 nodes and any node index (i, j, k),
\* sample_array at origin + (i, j, k) * spacing returns exactly
\* array[i, j, k].
C13_SampleAtNode ==
    (/\ op.name = "sample_array"
     /\ \A axis \in 1..3 :
           /\ op.args.h[axis] % 2 = 0
           /\ op.args.h[axis] \div 2 \in 0..(op.args.array.shape[axis] - 1))
    => op.result = op.args.array.data[<<op.args.h[1] \div 2,
                                        op.args.h[2] \div 2,
                                        op.args.h[3] \div 2>>]

\* The ray parameters t >= 0 at which the ray is between the box's bounds
\* along one axis, as the closed interval <<from, to>> (empty if from > to)
axis_interval(box, ray_origin, ray_direction, axis) ==
    LET o == ray_origin[axis]
        d == ray_direction[axis]
        a == QDiv(QSub(box.lower[axis], o), d)
        b == QDiv(QSub(box.upper[axis], o), d)
    IN  IF d = Zero
        THEN (IF QLe(box.lower[axis], o) /\ QLe(o, box.upper[axis])
              THEN <<Zero, Inf>> ELSE <<One, Zero>>)
        ELSE IF QLt(Zero, d) THEN <<QMax(a, Zero), b>>
        ELSE <<QMax(b, Zero), a>>
\* no point of the ray is in the box
misses(box, ray_origin, ray_direction) ==
    LET I(axis) == axis_interval(box, ray_origin, ray_direction, axis)
    IN  \/ \E axis \in 1..3 : QGt(I(axis)[1], I(axis)[2])
        \/ QGt(QMax(I(1)[1], QMax(I(2)[1], I(3)[1])),
               QMin(I(1)[2], QMin(I(2)[2], I(3)[2])))
\* the ray runs along +x through the centre of the box
through_centre(box, ray_origin, ray_direction) ==
    /\ ray_direction = <<One, Zero, Zero>>
    /\ \A axis \in 2..3 :
          QAdd(ray_origin[axis], ray_origin[axis]) =
             QAdd(box.lower[axis], box.upper[axis])
    /\ QLe(QAdd(ray_origin[1], ray_origin[1]),
           QAdd(box.lower[1], box.upper[1]))

\* C14: ray_intersect_box returns (t0, t1) with t0 >= 0; for a ray through
\* the centre of the box along +x, t0 < t1 and both are finite; for a ray
\* that misses the box entirely (also a box wholly behind the ray origin),
\* t0 > t1.
C14_RayIntersectBox ==
    op.name = "ray_intersect_box" =>
        /\ QGe(op.result[1], Zero)
        /\ through_centre(op.args.box, op.args.ray_origin,
                          op.args.ray_direction)
              => /\ QLt(op.result[1], op.result[2])
                 /\ QLt(op.result[2], Inf)
        /\ misses(op.args.box, op.args.ray_origin, op.args.ray_direction)
              => QGt(op.result[1], op.result[2])

\* the points the signed distance functions are compared at
Points == {<<N(x), N(y), N(z)>> : x \in {0, 2}, y \in {0, 2}, z \in {0, 1}}

\* C15: a + b has sdf(p) = min(a.sdf(p), b.sdf(p)) for every p (hence
\* negative at every point inside either operand), its bounding box is the
\* component-wise min of the lower bounds and max of the upper bounds, and
\* its distance_threshold is the min of the operands' thresholds.
C15_Union ==
    [][op'.name = "__add__" =>
         LET a == geometries[op'.args[1]]
             b == geometries[op'.args[2]]
             g == geometries'[op'.result]
             union[va \in Rat, vb \in Rat, vg \in Rat] ==
                 /\ vg = QMin(va, vb)
                 /\ (QLt(va, Zero) \/ QLt(vb, Zero)) => QLt(vg, Zero)
         IN  /\ \A p \in Points, nan \in NanOperands :
                   union[sdf_at(a.sdf, p, nan), sdf_at(b.sdf, p, nan),
                         sdf_at(g.sdf, p, nan)]
             /\ \A c \in 1..3 :
                   /\ g.lower_bound[c] = QMin(a.lower_bound[c], b.lower_bound[c])
                   /\ g.upper_bound[c] = QMax(a.upper_bound[c], b.upper_bound[c])
             /\ g.distance_threshold
                   = QMin(a.distance_threshold, b.distance_threshold)]_vars

\* a union whose right operand has the smaller threshold, of two geometries
\* with different boxes, each with a point inside it and outside the other
C15_Witness ==
    /\ op.name = "__add__"
    /\ LET a == geometries[op.args[1]]
           b == geometries[op.args[2]]
       IN  /\ QLt(b.distance_threshold, a.distance_threshold)
           /\ a.lower_bound # b.lower_bound /\ a.upper_bound # b.upper_bound
           /\ \E p \in Points : /\ QLt(sdf_at(a.sdf, p, "number"), Zero)
                                /\ QGt(sdf_at(b.sdf, p, "number"), Zero)
           /\ \E p \in Points : /\ QLt(sdf_at(b.sdf, p, "number"), Zero)
                                /\ QGt(sdf_at(a.sdf, p, "number"), Zero)

\* C16: a - b has sdf(p) = max(a.sdf(p), -b.sdf(p)) with the bounding box
\* and the threshold of a; a & b has sdf(p) = max(a.sdf(p), b.sdf(p)), the
\* component-wise max of the lower bounds and min of the upper bounds, and
\* the min of the thresholds; no combinator (union, difference,
\* intersection, translate, rotate) changes the sdf, the bounds or the
\* threshold of an operand.
C16_DifferenceIntersection ==
    [][/\ \A i \in DOMAIN geometries : geometries'[i] = geometries[i]
       /\ op'.name \in {"__sub__", "__and__"} =>
            LET a == geometries[op'.args[1]]
                b == geometries[op'.args[2]]
                g == geometries'[op'.result]
            IN  /\ op'.name = "__sub__" =>
                      /\ \A p \in Points, nan \in NanOperands :
                            sdf_at(g.sdf, p, nan)
                               = QMax(sdf_at(a.sdf, p, nan),
                                      QNeg(sdf_at(b.sdf, p, nan)))
                      /\ g.lower_bound = a.lower_bound
                      /\ g.upper_bound = a.upper_bound
                      /\ g.distance_threshold = a.distance_threshold
                /\ op'.name = "__and__" =>
                      /\ \A p \in Points, nan \in NanOperands :
                            sdf_at(g.sdf, p, nan)
                               = QMax(sdf_at(a.sdf, p, nan),
                                      sdf_at(b.sdf, p, nan))
                      /\ \A c \in 1..3 :
                            /\ g.lower_bound[c]
                                  = QMax(a.lower_bound[c], b.lower_bound[c])
                            /\ g.upper_bound[c]
                                  = QMin(a.upper_bound[c], b.upper_bound[c])
                      /\ g.distance_threshold
                            = QMin(a.distance_threshold, b.distance_threshold)
      ]_vars

\* a difference of two geometries with different boxes and thresholds that
\* removes a point of its left operand
C16_Witness ==
    /\ op.name = "__sub__"
    /\ LET a == geometries[op.args[1]]
           b == geometries[op.args[2]]
           g == geometries[op.result]
       IN  /\ a.lower_bound # b.lower_bound /\ a.upper_bound # b.upper_bound
           /\ a.distance_threshold # b.distance_threshold
           /\ \E p \in Points : /\ QLt(sdf_at(a.sdf, p, "number"), Zero)
                                /\ QGt(sdf_at(g.sdf, p, "number"), Zero)

\* p turned about the unit axis by the angle with the given cosine and sine
\* (Rodrigues' formula)
turned(p, axis, cos, sin) ==
    LET axis_x_p == <<QSub(QMul(axis[2], p[3]), QMul(axis[3], p[2])),
                      QSub(QMul(axis[3], p[1]), QMul(axis[1], p[3])),
                      QSub(QMul(axis[1], p[2]), QMul(axis[2], p[1]))>>
    IN  Add3(Add3(Scale3(p, cos), Scale3(axis_x_p, sin)),
             Scale3(axis, QMul(Dot(axis, p), QSub(One, cos))))

\* C17: g.rotate(angle, axis), axis a unit vector, has sdf'(p) =
\* g.sdf(R^-1 p) for every p, R the rotation by angle about axis, and the
\* bounding box and threshold of g.
C17_Rotate ==
    [][op'.name = "rotate" =>
         LET g == geometries[op'.args[1]]
             angle == op'.args[2]
             axis == op'.args[3]
             cos == QSub(QMul(angle.c, angle.c), QMul(angle.s, angle.s))
             sin == QMul(N(2), QMul(angle.c, angle.s))
             r == geometries'[op'.result]
         IN  /\ \A p \in Points, nan \in NanOperands :
                   sdf_at(r.sdf, p, nan)
                      = sdf_at(g.sdf, turned(p, axis, cos, QNeg(sin)), nan)
             /\ r.lower_bound = g.lower_bound
             /\ r.upper_bound = g.upper_bound
             /\ r.distance_threshold = g.distance_threshold]_vars

\* C18: constructing a ScreenBuffer with height = 0 or width = 0, by
\* ScreenBuffer(height, width) or by from_camera, fails with an error
\* instead of returning an empty buffer.
C18_ZeroSizeFails ==
    (/\ op.name \in {"__init__", "from_camera"}
     /\ (op.args.height = 0 \/ op.args.width = 0))
        => op.result.raised # ""

\* the array types each conversion names in a branch
Supported(name) ==
    IF name = "to_warp"
    THEN {"wp.array", "cp.ndarray", "jnp.ndarray", "np.ndarray", "torch.Tensor"}
    ELSE {"cp.ndarray", "jnp.ndarray", "wp.array", "torch.Tensor"}

\* C19: to_warp and backend_to_cupy raise ValueError for an array of an
\* unsupported type and return every supported type converted to the
\* target type (an array already of the target type as the same object),
\* whichever of JAX and Torch are installed.
C19_BackendConversion ==
    op.name \in {"to_warp", "backend_to_cupy"} =>
        LET target == IF op.name = "to_warp" THEN "wp.array" ELSE "cp.ndarray"
        IN  IF op.args.array.type \in Supported(op.name)
            THEN /\ op.result.raised = ""
                 /\ op.result.value.type = target
                 /\ op.args.array.type = target
                       => op.result.value = op.args.array
            ELSE op.result.raised = "ValueError"

\* the distance a thread has accumulated along its ray
travelled(kind, f) ==
    IF kind = "geometry" THEN f.distance_traveled ELSE f.distance

\* C20: within one launch a kernel stops marching a pixel as soon as its
\* accumulated distance exceeds the depth stored for the pixel: a thread
\* whose distance is beyond the stored depth takes no further step along
\* its ray, and no opaque write and no transparent accumulation is made
\* for a fragment whose distance is greater than the depth stored then.
C20_StopsBeyondDepth ==
    [][thread.pc = "running" =>
         /\ Len(thread'.f.log) > Len(thread.f.log) =>
               QLe(logged.distance, depth_buffer[thread.p])
         /\ QGt(travelled(KernelCalls[thread.call].draw.kind, thread.f),
                depth_buffer[thread.p]) =>
               thread'.f.ray_pos = thread.f.ray_pos]_vars

\* the fragments each pixel's threads log over the launches of calls onto
\* sb, in the order given
RECURSIVE render_logs(_, _)
render_logs(calls, sb) ==
    IF calls = <<>> THEN Fill(<<>>)
    ELSE LET r == launch(RenderCalls[Head(calls)].draw,
                         RenderCalls[Head(calls)].camera, sb)
             rest == render_logs(Tail(calls), r.sb)
         IN  [p \in Pixels |-> r.logs[p] \o rest[p]]

\* C21: draws (opaque and transparent) launched one after another onto a
\* cleared buffer leave the same transparent accumulation and revealage in
\* every pixel whatever the order of the launches, and no transparent
\* fragment that went into them is farther than the pixel's final depth.
C21_TransparencyOrderIndependent ==
    Len(drawn) > 1
    => /\ \A order \in Orders(Len(drawn)) :
             LET sb == render_all([i \in DOMAIN drawn |-> drawn[order[i]]],
                                  ScreenBuffer_init)
             IN  /\ sb.transparent_pixel_buffer = transparent_pixel_buffer
                 /\ sb.revealage_buffer = revealage_buffer
       /\ \A p \in Pixels :
             LET log == render_logs(drawn, ScreenBuffer_init)[p]
             IN  \A i \in DOMAIN log :
                    log[i].layer = "transparent"
                       => QLe(log[i].distance, depth_buffer[p])

\* C22: the contour kernel registers a crossing at a step exactly when
\* (value - threshold) changes sign between the step's two samples, once
\* for each change (and, in opaque mode, only the first: the thread
\* returns), with t = (threshold - value)/(next_value - value) in [0, 1].
C22_ContourCrossing ==
    [][(/\ running("contour")
        /\ thread.f.step < thread.f.n
        /\ ~QGt(thread.f.distance, depth_buffer[thread.p]))
       => LET draw == KernelCalls[thread.call].draw
              step_size == step_size_of(draw.spacing)
              value == QSub(thread.f.value, draw.threshold)
              next_value ==
                  QSub(sample_on_ray(RayOf(draw, thread.p), step_size,
                                     QAdd(thread.f.ray_pos, step_size)),
                       draw.threshold)
              crossings == Len(thread'.f.log) - Len(thread.f.log)
          IN  /\ crossings \in {0, 1}
              /\ crossings = 1 =>
                    /\ QLe(QMul(value, next_value), Zero)
                    /\ QLe(Zero, thread'.f.t) /\ QLe(thread'.f.t, One)
                    /\ draw.opaque => thread'.pc = "returned"
              /\ QLt(QMul(value, next_value), Zero) => crossings = 1]_vars

\* C23: in its marching loop the geometry kernel moves the ray by
\* |sdf(ray position)| at each step and records a hit exactly when that
\* magnitude is below distance_threshold; no hit (opaque write or
\* transparent accumulation) is recorded at a travelled distance greater
\* than max_depth.
C23_SphereTracing ==
    [][(/\ running("geometry")
        /\ thread.f.pc = "march"
        /\ QLt(thread.f.distance_traveled,
               KernelCalls[thread.call].camera.max_depth))
       => LET draw == KernelCalls[thread.call].draw
              distance == QAbs(sdf(RayOf(draw, thread.p), thread.f.ray_pos))
              hit == Len(thread'.f.log) > Len(thread.f.log)
          IN  /\ ~QGt(QAdd(thread.f.distance_traveled, distance),
                      depth_buffer[thread.p])
                    => /\ thread'.f.ray_pos =
                             QAdd(thread.f.ray_pos, distance)
                       /\ hit <=> QLt(distance, draw.distance_threshold)
              /\ hit => QLe(logged.distance,
                            KernelCalls[thread.call].camera.max_depth)]_vars

\* the position of a call of sample_array, and the entries of its array
sampled_position ==
    [axis \in 1..3 |->
        QAdd(op.args.origin[axis],
             QMul(Q(op.args.h[axis], 2), op.args.spacing[axis]))]
stored_values == {op.args.array.data[idx] : idx \in DOMAIN op.args.array.data}

\* C24: for every position (inside the grid, below the origin, beyond the
\* upper end) sample_array takes as (i, j, k) the floor of
\* (position - origin) / spacing and as (dx, dy, dz) the remainder, in
\* [0, 1), and returns a convex combination of stored values: the result
\* is between the least and the greatest entry of the array.
C24_SampleWithinGrid ==
    op.name = "sample_array"
    => /\ \A axis \in 1..3 :
             /\ lower_index(sampled_position, op.args.origin,
                            op.args.spacing, axis) = op.args.h[axis] \div 2
             /\ QLe(Zero, fraction(sampled_position, op.args.origin,
                                   op.args.spacing, axis))
             /\ QLt(fraction(sampled_position, op.args.origin,
                             op.args.spacing, axis), One)
       /\ \E least, greatest \in stored_values :
             /\ QLe(least, op.result)
             /\ QLe(op.result, greatest)

\* C25: the ray of pixel (x, y) of a height x width buffer goes through
\* the image plane one unit ahead of the camera at the vertical offset
\* (y - height/2) / (height/2) along up' (from -1 at the bottom row to +1
\* at the top edge: a vertical field of view of 90 degrees) and at the
\* horizontal offset (x - width/2) / (height/2) along right (the same
\* scale on both axes); the ray of the centre pixel is the forward
\* direction.
C25_RayThroughImagePlane ==
    op.name = "calculate_ray_direction"
    => LET camera == op.args.camera
           forward ==
               normalize(<<QSub(camera.focal_point[1], camera.position[1]),
                           QSub(camera.focal_point[2], camera.position[2]),
                           QSub(camera.focal_point[3], camera.position[3])>>)
           right == normalize(cross(forward, camera.view_up))
           up == cross(right, forward)
           ahead == Dot(op.result.direction, forward)
       IN  /\ QGt(ahead, Zero)
           /\ QDiv(Dot(op.result.direction, up), ahead) =
                 Q(2 * op.args.y - op.args.height, op.args.height)
           /\ QDiv(Dot(op.result.direction, right), ahead) =
                 Q(2 * op.args.x - op.args.width, op.args.height)
           /\ (2 * op.args.x = op.args.width
                  /\ 2 * op.args.y = op.args.height)
                 => op.result.direction = forward

\* C26: a launch writes only the layer of its kind.  A volume launch and a
\* transparent contour or geometry launch leave the opaque colour, depth
\* and normal of all pixels unchanged; an opaque contour or geometry
\* launch leaves the transparent accumulation and the revealage unchanged
\* and, for each pixel, either writes nothing or writes opaque colour,
\* depth and normal together, once, after which the pixel's thread has
\* returned; no launch changes the background.
C26_WritesOwnLayer ==
    [][op'.name \in Kinds =>
         /\ UNCHANGED background_buffer
         /\ IF RenderCalls[op'.call].draw.opaque
            THEN /\ UNCHANGED <<transparent_pixel_buffer, revealage_buffer>>
                 /\ op'.returned
                 /\ \A p \in Pixels :
                       IF op'.logs[p] = <<>>
                       THEN /\ opaque_pixel_buffer'[p] = opaque_pixel_buffer[p]
                            /\ depth_buffer'[p] = depth_buffer[p]
                            /\ normal_buffer'[p] = normal_buffer[p]
                       ELSE /\ Len(op'.logs[p]) = 1
                            /\ op'.logs[p][1].layer = "opaque"
                            /\ opaque_pixel_buffer'[p] =
                                  Scale3(op'.logs[p][1].rgb,
                                         op'.logs[p][1].scale)
                            /\ depth_buffer'[p] = op'.logs[p][1].distance
                            /\ normal_buffer'[p] =
                                  normalize(RayOf(RenderCalls[op'.call].draw,
                                                  p).gradient)
            ELSE UNCHANGED <<opaque_pixel_buffer, depth_buffer,
                             normal_buffer>>]_vars

\* an opaque launch has written a pixel that a transparent launch had
\* written before, on a buffer with a coloured background
C26_Witness ==
    /\ op.name \in Kinds
    /\ RenderCalls[op.call].draw.opaque
    /\ Len(drawn) = 2
    /\ ~RenderCalls[drawn[1]].draw.opaque
    /\ \E p \in Pixels :
          /\ Len(op.logs[p]) = 1
          /\ depth_buffer[p] = op.logs[p][1].distance
          /\ opaque_pixel_buffer[p] # Vec3Zero
          /\ revealage_buffer[p] # One
          /\ transparent_pixel_buffer[p] # Vec3Zero
          /\ background_buffer[p] # Vec3Zero

\* C27: a buffer made by ScreenBuffer.from_camera(camera) is, after any
\* launches followed by clear(), what from_camera(camera) returned: every
\* array, the background included, has the value it had then.  (Only a
\* buffer made from a camera and not cleared since holds the camera's
\* background colour.)
C27_ClearGivesFreshBuffer ==
    [][op'.name = "clear" =>
         \A camera \in {Cam4, Cam2} :
            background_buffer = from_camera(camera).background_buffer
               => SB' = from_camera(camera)]_vars

\* a colour or opacity in [0, 1]
unit(v) == QLe(Zero, v) /\ QLe(v, One)

\* C28: when the colours and opacities of all draws launched on the buffer
\* and the background are in [0, 1], every rgb channel of the composited
\* image is in [0, 1], after any sequence of opaque and transparent
\* launches.
C28_ImageInUnitRange ==
    (/\ op.name = "image"
     /\ \A i \in DOMAIN drawn :
           LET draw == RenderCalls[drawn[i]].draw
           IN  \A row \in DOMAIN draw.color_map_array, c \in 1..4 :
                  unit(draw.color_map_array[row][c])
     /\ \A p \in Pixels, c \in 1..3 : unit(background_buffer[p][c]))
    => \A p \in Pixels, c \in 1..3 : unit(image_buffer[p][c])

====
